---- MODULE Spec2Model ----
(***************************************************************************)
(* State-machine model of src/script.js (SGCF client script): the form     *)
(* submission pipeline (FormHandler), the feedback component (UI), the     *)
(* mock gateway (Utils.fetchData), the API facade (ApiService) and the     *)
(* pure serializer FormHandler.serializeForm.                              *)
(***************************************************************************)
EXTENDS Integers, Sequences, FiniteSets, TLC

(***************************************************************************)
(* Bounds of the model.                                                    *)
(***************************************************************************)
\* longest form.elements list handed to serializeForm
MaxElems == 2
\* most setTimeout callbacks pending at once
MaxTimers == 2
\* most of the three forms one page holds
MaxForms == 2

(***************************************************************************)
(* Values.  A JavaScript string value is a TLA+ string; an element name is *)
(* a sequence of characters so that endsWith is computed, not assumed.     *)
(* A value stored in the serialized object is tagged: a scalar string or   *)
(* an array of strings.                                                    *)
(***************************************************************************)
Str(s) == [kind |-> "str", v |-> s]
Arr(q) == [kind |-> "arr", v |-> q]

\* JavaScript truthiness of a stored value: '' is falsy, every array
\* (the empty one included) and every non-empty string is truthy.
Truthy(x) == IF x.kind = "arr" THEN TRUE ELSE x.v # ""

\* Array.isArray
IsArray(x) == x.kind = "arr"

\* String.prototype.endsWith('[]') on a name given as its characters
EndsWithBrackets(name) ==
    /\ Len(name) >= 2
    /\ name[Len(name) - 1] = "["
    /\ name[Len(name)] = "]"

(***************************************************************************)
(* FormHandler.serializeForm                                               *)
(***************************************************************************)
Has(data, n) == n \in DOMAIN data

\* data[name] as JavaScript reads it: undefined (falsy) when absent
Holds(data, n) == Has(data, n) /\ Truthy(data[n])

Put(data, n, x) == (n :> x) @@ data

\* the first test of the checked branch, line 1045: if (data[element.name])
AlreadyExists(data, n) == Holds(data, n)

\* a checked branch without its body: a checked box adds nothing
checkedBranchDropped(data, element) == data

\* lines 1044-1057: a checked checkbox or radio
checkedBranch(data, element) ==
    LET n == element.name IN
    IF AlreadyExists(data, n)
    THEN Put(data, n,
             Arr(Append(IF IsArray(data[n]) THEN data[n].v ELSE <<data[n].v>>,
                        element.value)))
    ELSE IF EndsWithBrackets(n)
         THEN Put(data, n, Arr(<<element.value>>))
         ELSE Put(data, n, Str(element.value))

\* the else-if branch left without its body: an unchecked box adds nothing
uncheckedBranchDropped(data, element) == data

\* lines 1058-1063: an unchecked checkbox whose name holds nothing yet
uncheckedBranch(data, element) ==
    LET n == element.name IN
    IF element.type = "checkbox" /\ ~Holds(data, n)
    THEN IF EndsWithBrackets(n)
         THEN Put(data, n, IF Holds(data, n) THEN data[n] ELSE Arr(<<>>))
         ELSE data
    ELSE data

\* the last branch without its tests of disabled and type
otherInputUnfiltered(data, element) ==
    IF element.name # <<>>
    THEN Put(data, element.name, Str(element.value))
    ELSE data

\* the last branch keeping the first value stored under a name
otherInputFirstWins(data, element) ==
    IF /\ element.name # <<>>
       /\ ~element.disabled
       /\ element.type \notin {"file", "reset", "submit", "button"}
       /\ ~Has(data, element.name)
    THEN Put(data, element.name, Str(element.value))
    ELSE data

\* lines 1064-1067: the other kinds of input
otherInput(data, element) ==
    IF /\ element.name # <<>>
       /\ ~element.disabled
       /\ element.type \notin {"file", "reset", "submit", "button"}
    THEN Put(data, element.name, Str(element.value))
    ELSE data

\* body of the forEach callback, lines 1041-1068
serializeElement(data, element) ==
    IF /\ element.name # <<>>
       /\ ~element.disabled
       /\ element.type \in {"checkbox", "radio"}
    THEN IF element.checked
         THEN checkedBranch(data, element)
         ELSE uncheckedBranch(data, element)
    ELSE otherInput(data, element)

RECURSIVE serializeFrom(_, _, _)
serializeFrom(data, elements, i) ==
    IF i > Len(elements) THEN data
    ELSE serializeFrom(serializeElement(data, elements[i]), elements, i + 1)

\* FormHandler.serializeForm(form): Array.from(form.elements).forEach(...)
serializeForm(elements) == serializeFrom(<<>>, elements, 1)

(***************************************************************************)
(* Inputs of serializeForm: form.elements lists of at most MaxElems        *)
(* elements.  Names: none, a plain name, a name with the '[]' suffix.      *)
(* An element without a name fails both tests of the callback whatever its *)
(* type and state, so one such element stands for all of them; file       *)
(* inputs and reset, submit and button controls are told apart from text   *)
(* inputs by their type alone, and carry a value no other element has.     *)
(***************************************************************************)
ElementNames == {<<>>, <<"a">>, <<"a", "[", "]">>}
ElementValues == {"", "x", "y"}

CheckableElements ==
    [name : ElementNames \ {<<>>}, type : {"checkbox", "radio"},
     disabled : BOOLEAN, checked : BOOLEAN, value : ElementValues]

OtherElements ==
    [name : ElementNames \ {<<>>}, type : {"text"}, disabled : BOOLEAN,
     checked : {FALSE}, value : ElementValues]
    \cup
    [name : ElementNames \ {<<>>},
     type : {"file", "reset", "submit", "button"},
     disabled : {FALSE}, checked : {FALSE}, value : {"f"}]
    \cup
    [name : {<<>>}, type : {"text"}, disabled : {FALSE}, checked : {FALSE},
     value : {"x"}]

FormElements == CheckableElements \cup OtherElements

ElementLists == UNION {[1..k -> FormElements] : k \in 0..MaxElems}

(***************************************************************************)
(* DOM helpers and the feedback component (DOM, UI).                       *)
(***************************************************************************)
Null == [tag |-> "null"]

OptionOr(options, key, default) ==
    IF key \in DOMAIN options THEN options[key] ELSE default

\* DOM.createEl(tag, options): honours textContent, className, id,
\* attributes and children; any other option is not read.
createEl(tag, options) ==
    [tag |-> tag,
     textContent |-> OptionOr(options, "textContent", ""),
     className |-> OptionOr(options, "className", ""),
     children |-> OptionOr(options, "children", <<>>)]

\* element.querySelector('.cls') / querySelector('tag') among the children
querySelector(el, sel) ==
    LET hits == SelectSeq(el.children,
                          LAMBDA c : c.className = sel \/ c.tag = sel)
    IN IF hits = <<>> THEN Null ELSE hits[1]

\* the options object UI.showLoading passes to DOM.createEl (lines 502-506);
\* innerHTML stands for the two elements its markup describes
LoaderOptions ==
    [className |-> "sgcf-loader",
     innerHTML |-> <<[tag |-> "div", className |-> "spinner"],
                     [tag |-> "span", className |-> ""]>>]

\* a submit control: its disabled flag, its label (textContent) and the
\* number of .sgcf-loader children it carries
Control(disabled, text, loaders) ==
    [disabled |-> disabled, text |-> text, loaders |-> loaders]

\* existingLoader.remove() / loader.remove(): the first loader, if any
removeLoader(target) ==
    [target EXCEPT !.loaders = IF @ > 0 THEN @ - 1 ELSE 0]

\* UI.showLoading(element): the target afterwards and whether the call threw
\* (loader.querySelector('.spinner').style on a null result, line 516,
\* before element.appendChild(loader), line 525)
showLoading(target) ==
    IF target = Null
    THEN [threw |-> FALSE, target |-> target]
    ELSE LET cleared == removeLoader(target)
             loader == createEl("div", LoaderOptions)
         IN IF querySelector(loader, "spinner") = Null
               \/ querySelector(loader, "span") = Null
            THEN [threw |-> TRUE, target |-> cleared]
            ELSE [threw |-> FALSE,
                  target |-> [cleared EXCEPT !.loaders = @ + 1]]

\* UI.hideLoading(element) on an element; on null DOM.qs is handed null as
\* its parent (line 535) and the call throws
hideLoading(target) == IF target = Null THEN target ELSE removeLoader(target)

\* element.textContent = text: replaces every child of the element
setTextContent(target, text) ==
    [target EXCEPT !.text = text, !.loaders = 0]

\* setTimeout delays of UI.displayFeedback and of Utils.fetchData
ErrorNoticeDelay == 10000
NoticeDelay == 5000
FetchDelayMin == 200
FetchDelayMax == 1000

Notice(id, type, message) == [id |-> id, type |-> type, message |-> message]

\* a lookup that never finds the previous notice
removeFirstNoticeMissed(container) == container

\* existingFeedback.remove(): DOM.qs finds the first .sgcf-feedback
removeFirstNotice(container) ==
    IF container = <<>> THEN container ELSE Tail(container)

\* a timer that removes whatever notice the container holds
removeNoticeHeld(container, id) == <<>>

\* feedbackEl.remove() run by the notice's own timer
removeNotice(container, id) == SelectSeq(container, LAMBDA x : x.id # id)

\* UI.displayFeedback(message, container, type), lines 555-589: the
\* container afterwards
displayFeedback(container, id, type, message) ==
    <<Notice(id, type, message)>> \o removeFirstNotice(container)

Timer(kind, form, id, lo, hi) ==
    [kind |-> kind, form |-> form, id |-> id, lo |-> lo, hi |-> hi]

\* the setTimeout of UI.displayFeedback, lines 592-594
feedbackTimer(form, id, type) ==
    LET d == IF type = "error" THEN ErrorNoticeDelay ELSE NoticeDelay
    IN Timer("feedback", form, id, d, d)

(***************************************************************************)
(* The mock gateway and the facade (Utils.fetchData, ApiService).          *)
(* An endpoint is its path followed by its query, if any.                  *)
(***************************************************************************)
\* a test that accepts the bare path only
startsWithExactly(endpoint, prefix) == endpoint = <<prefix>>

\* endpoint.startsWith(prefix), lines 104, 129 and 146
startsWith(endpoint, prefix) == Len(endpoint) >= 1 /\ endpoint[1] = prefix

\* options = {}: neither params nor body
NoOptions == [kind |-> "options"]

\* mapData and alerts of the mocked dashboard payload (by id), lines 114-126
MapData == <<"AFR-SAH", "ASIA-SE", "LATAM-CA", "MENA">>
\* the alerts of the dashboard payload, lines 121-126: id, level, and the
\* days between the timestamp and the moment the payload is built
Alert(id, level, daysAgo) == [id |-> id, level |-> level, daysAgo |-> daysAgo]

Alerts ==
    <<Alert("ALERT001", "critical", 2), Alert("ALERT002", "high", 3),
      Alert("ALERT003", "critical", 1), Alert("ALERT004", "medium", 7)>>

\* allProjects, lines 131-136
Project(id, region, type) == [id |-> id, region |-> region, type |-> type]

allProjects ==
    <<Project("PROJAFR05", "AFR-SAH", "agriculture_support"),
      Project("PROJLATAM02", "LATAM-CA", "school_feeding"),
      Project("PROJASIA01", "ASIA-SE", "agriculture_support"),
      Project("PROJMENA03", "MENA", "emergency_relief")>>

\* options.params?.key || 'all', lines 138-139
paramOrAll(options, key) ==
    IF /\ "params" \in DOMAIN options
       /\ key \in DOMAIN options.params
       /\ options.params[key] # ""
    THEN options.params[key]
    ELSE "all"

\* lines 138-143
filteredProjects(options) ==
    LET regionFilter == paramOrAll(options, "region")
        typeFilter == paramOrAll(options, "type")
    IN SelectSeq(allProjects, LAMBDA p :
           /\ regionFilter = "all" \/ p.region = regionFilter
           /\ typeFilter = "all" \/ p.type = typeFilter)

Resolved(success, message, payload) ==
    [ok |-> TRUE, success |-> success, message |-> message, error |-> <<>>,
     data |-> payload]

Rejected(error) ==
    [ok |-> FALSE, success |-> FALSE, message |-> "", error |-> error,
     data |-> <<>>]

\* a gateway that answers every endpoint
fetchDataAnyEndpoint(endpoint, options) ==
    Resolved(TRUE, "Dados recebidos com sucesso!", <<>>)

\* a gateway that mocks the two read endpoints only
fetchDataReadsOnly(endpoint, options) ==
    IF startsWith(endpoint, "/dashboard")
    THEN Resolved(TRUE, "", [mapData |-> MapData, alerts |-> Alerts])
    ELSE IF startsWith(endpoint, "/projects")
    THEN Resolved(TRUE, "", filteredProjects(options))
    ELSE Rejected(<<"Falha ao buscar dados de ">> \o endpoint)

\* Utils.fetchData once its delay has elapsed, lines 104-155
fetchData(endpoint, options) ==
    IF startsWith(endpoint, "/dashboard")
    THEN Resolved(TRUE, "", [mapData |-> MapData, alerts |-> Alerts])
    ELSE IF startsWith(endpoint, "/projects")
    THEN Resolved(TRUE, "", filteredProjects(options))
    ELSE IF \/ startsWith(endpoint, "/process-donation")
            \/ startsWith(endpoint, "/process-volunteer")
            \/ startsWith(endpoint, "/subscribe-newsletter")
    THEN Resolved(TRUE, "Dados recebidos com sucesso!", <<>>)
    ELSE Rejected(<<"Falha ao buscar dados de ">> \o endpoint)

Forms == {"donation", "volunteer", "newsletter"}

Endpoint(f) ==
    CASE f = "donation" -> <<"/process-donation">>
      [] f = "volunteer" -> <<"/process-volunteer">>
      [] f = "newsletter" -> <<"/subscribe-newsletter">>

FacadeDefaultError(f) ==
    CASE f = "donation" -> "Falha ao processar doação."
      [] f = "volunteer" -> "Falha ao enviar inscrição."
      [] f = "newsletter" -> "Falha ao inscrever na newsletter."

\* ApiService.submitDonation / submitVolunteerForm / submitNewsletter after
\* the await: the response returned, or the error thrown again
facadeSubmit(f) ==
    LET response == fetchData(Endpoint(f), NoOptions) IN
    IF ~response.ok
    THEN [returned |-> FALSE, message |-> "", error |-> response.error]
    ELSE IF response.success
    THEN [returned |-> TRUE, message |-> response.message, error |-> <<>>]
    ELSE [returned |-> FALSE, message |-> "",
          error |-> <<IF response.message # "" THEN response.message
                                                ELSE FacadeDefaultError(f)>>]

FacadeOps ==
    {"getDashboardData", "getProjects", "submitDonation",
     "submitVolunteerForm", "submitNewsletter"}

\* the message of the error an operation throws when the response carries
\* none, lines 629, 641, 657, 673 and 689
defaultError(op) ==
    CASE op = "getDashboardData" -> "Falha ao buscar dados do dashboard."
      [] op = "getProjects" -> "Falha ao buscar projetos."
      [] op = "submitDonation" -> "Falha ao processar doação."
      [] op = "submitVolunteerForm" -> "Falha ao enviar inscrição."
      [] op = "submitNewsletter" -> "Falha ao inscrever na newsletter."

\* new URLSearchParams(params).toString(), line 626
toQuery(params) ==
    IF "date" \in DOMAIN params THEN <<"date=", params.date>> ELSE <<>>

\* the endpoint an operation requests, lines 627, 639, 652, 668 and 684
facadeEndpoint(op, arg) ==
    CASE op = "getDashboardData" -> <<"/dashboard", "?">> \o toQuery(arg)
      [] op = "getProjects" -> <<"/projects">>
      [] op = "submitDonation" -> <<"/process-donation">>
      [] op = "submitVolunteerForm" -> <<"/process-volunteer">>
      [] op = "submitNewsletter" -> <<"/subscribe-newsletter">>

\* the options an operation passes on: the filters as params (line 639), the
\* serialized argument as body, or nothing (line 627)
facadeOptions(op, arg) ==
    CASE op = "getDashboardData" -> NoOptions
      [] op = "getProjects" -> [kind |-> "options", params |-> arg]
      [] OTHER -> [kind |-> "options", body |-> arg]

Settled(resolved, value, error) ==
    [resolved |-> resolved, value |-> value, error |-> error]

\* a facade that hands back whatever the gateway resolved with
facadeContinueUnchecked(op, response) ==
    IF ~response.ok
    THEN Settled(FALSE, <<>>, response.error)
    ELSE Settled(TRUE, response, <<>>)

\* an ApiService operation after its await: the value it resolves with, or
\* the error it throws again from its catch block
facadeContinue(op, response) ==
    IF ~response.ok
    THEN Settled(FALSE, <<>>, response.error)
    ELSE IF response.success
    THEN Settled(TRUE,
                 IF op \in {"getDashboardData", "getProjects"}
                 THEN response.data ELSE response,
                 <<>>)
    ELSE Settled(FALSE, <<>>,
                 <<IF response.message # "" THEN response.message
                                            ELSE defaultError(op)>>)

(***************************************************************************)
(* The tabs of the action center and the dropdowns (UI.initTabs,           *)
(* UI.initDropdowns).                                                      *)
(***************************************************************************)
\* the [role="tab"] buttons of .action-tabs-container in document order, and
\* the aria-labelledby of each [role="tabpanel"]
TabOrder == <<"tab-donate", "tab-volunteer", "tab-share">>

PanelLabels ==
    [donate |-> "tab-donate", volunteer |-> "tab-volunteer",
     share |-> "tab-share"]

TabIds == {TabOrder[k] : k \in DOMAIN TabOrder}

\* a tab widget that leaves the tabs it has selected before selected
activateTabKeepingSelected(widget, tabToActivate) ==
    [selected |-> [t \in TabIds |->
                      IF t = tabToActivate THEN "true" ELSE widget.selected[t]],
     tabindex |-> [t \in TabIds |-> IF t = tabToActivate THEN "0" ELSE "-1"],
     hidden |-> [p \in DOMAIN PanelLabels |->
                    PanelLabels[p] # tabToActivate]]

\* activateTab(tabToActivate), lines 416-439: the attributes of every tab and
\* of every panel afterwards (line 441 is the action's, it writes appState)
activateTab(widget, tabToActivate) ==
    [selected |-> [t \in TabIds |->
                      IF t = tabToActivate THEN "true" ELSE "false"],
     tabindex |-> [t \in TabIds |-> IF t = tabToActivate THEN "0" ELSE "-1"],
     hidden |-> [p \in DOMAIN PanelLabels |->
                    PanelLabels[p] # tabToActivate]]

\* the tabs before initTabs has run: the markup gives aria-selected="true"
\* to one tab or to none, every tab is focusable and no panel is hidden
TabMarkup(marked) ==
    [selected |-> [t \in TabIds |-> IF t = marked THEN "true" ELSE "false"],
     tabindex |-> [t \in TabIds |-> "0"],
     hidden |-> [p \in DOMAIN PanelLabels |-> FALSE]]

\* line 478: the first tab with aria-selected="true", or the first tab
initiallySelected(widget) ==
    LET marked == {k \in DOMAIN TabOrder :
                      widget.selected[TabOrder[k]] = "true"}
    IN IF marked = {} THEN TabOrder[1]
       ELSE TabOrder[CHOOSE k \in marked : \A j \in marked : k <= j]

\* lines 452-462: the index (from 0) of the tab a key moves to from the tab
\* at currentTabIndex, -1 for any other key
nextTabIndex(key, currentTabIndex) ==
    CASE key = "ArrowRight" -> (currentTabIndex + 1) % Len(TabOrder)
      [] key = "ArrowLeft" ->
            (currentTabIndex - 1 + Len(TabOrder)) % Len(TabOrder)
      [] key = "Home" -> 0
      [] key = "End" -> Len(TabOrder) - 1
      [] OTHER -> -1

\* the containers initDropdowns is given (line 1369): a submenu of the main
\* navigation, the user menu and the language switcher
DropdownContainers == {"submenu", "user-menu", "language-switcher"}

\* a helper that closes nothing
closeAllDropdownsNot(menus, currentContainer) == menus

\* closeAllDropdowns(currentContainer), lines 383-394
closeAllDropdowns(menus, currentContainer) ==
    [c \in DropdownContainers |->
        IF c # currentContainer
        THEN [expanded |-> "false", open |-> FALSE]
        ELSE menus[c]]

(***************************************************************************)
(* The widgets of the dashboard: relative dates, the alerts list with its  *)
(* badge, and the simulated map.  An instant is a number of hours since    *)
(* midnight (local time) of the 1st of a month of 30 days.                 *)
(***************************************************************************)
\* Date.prototype.getDate(): the day of the month
getDate(instant) ==
    LET day == instant \div 24
    IN IF day < 30 THEN day + 1 ELSE day - 29

\* what formatDate returns: 'Hoje', 'Ontem', `${n} dias atrás`, or the date
\* written out by Intl.DateTimeFormat
Formatted(text, n) == [text |-> text, n |-> n]

\* Utils.formatDate(dateInput), lines 164-181; diffDays is diffHours / 24
formatDate(date, now) ==
    LET diffHours == now - date
    IN IF diffHours < 24 /\ getDate(date) = getDate(now)
       THEN Formatted("Hoje", 0)
       ELSE IF diffHours < 48 /\ getDate(date) = getDate(now) - 1
       THEN Formatted("Ontem", 0)
       ELSE IF diffHours < 7 * 24
       THEN Formatted("dias atrás", diffHours \div 24)
       ELSE Formatted("date", 0)

\* the badge of #widget-alerts: the number its text begins with, and
\* style.display
Badge(count, display) == [count |-> count, display |-> display]

\* DashboardPage.updateAlerts(alerts), lines 1183-1221, at instant now: the
\* single item of an empty list is 'Nenhum alerta urgente no momento.'
updateAlerts(widget, alerts, now) ==
    LET criticalCount ==
            Cardinality({k \in DOMAIN alerts : alerts[k].level = "critical"})
    IN IF alerts = <<>>
       THEN [widget EXCEPT
               !.items = <<[id |-> "", level |-> "none",
                            time |-> Formatted("", 0)]>>]
       ELSE [items |-> [k \in DOMAIN alerts |->
                          [id |-> alerts[k].id, level |-> alerts[k].level,
                           time |-> formatDate(now - 24 * alerts[k].daysAgo,
                                               now)]],
             badge |-> Badge(criticalCount,
                             IF criticalCount > 0 THEN "inline-block"
                                                  ELSE "none")]

\* the InteractiveMap once constructed, lines 700-713: the children of its
\* container, this.markers, whether the timer of line 712 is pending, and
\* the number of renderMarkers calls so far
InteractiveMap ==
    [content |-> <<"p:loading">>, markers |-> <<>>, initializing |-> TRUE,
     renders |-> 0]

\* renderMarkers(data), lines 723-736: every `innerHTML +=` keeps the
\* children there are and parses the addition after them, so the <ul> is
\* closed empty and each <li> follows it; a point is written by its id
renderMarkers(m, data) ==
    [m EXCEPT !.markers = data,
                !.content = @ \o <<"ul">> \o data,
                !.renders = @ + 1]

(***************************************************************************)
(* The three forms.                                                        *)
(***************************************************************************)
Groups == {"money", "goods", "payment", "pix"}
DonationTypes == {"money", "goods", "time"}
PaymentMethods == {"card", "pix"}
\* data-amount of the preset buttons, and what a donor may type
PresetAmounts == {"10", "50"}
TypedAmounts == {"", "7"}
VolunteerNames == {"", "ana"}
Skills == {"cook", "drive"}
Emails == {<<>>, <<"a">>, <<"a", "@", "b">>}

\* the static markup of the donation form: the radios checked by default and
\* the groups shown before any script runs ("none": no radio checked)
HtmlConfigs ==
    {h \in [dtype : DonationTypes \cup {"none"},
            pay : PaymentMethods,
            shown : {{}, Groups}] :
        h.dtype # "none" => h.shown = {}}

\* labels of the submit controls in the markup, and the busy labels
OriginalLabel(f) ==
    CASE f = "donation" -> "Doar"
      [] f = "volunteer" -> "Enviar"
      [] f = "newsletter" -> "Assinar"

\* a toggle without its 'goods' case: goods is handled as money is
toggleDonationFieldsGoodsAsMoney(selectedValue, checkedPayment) ==
    IF selectedValue \in {"money", "goods"}
    THEN {"money", "payment"}
         \cup (IF checkedPayment = "pix" THEN {"pix"} ELSE {})
    ELSE {}

\* toggleDonationFields(selectedValue), lines 820-844: the visible groups
\* afterwards, given the payment method checked at the call
toggleDonationFields(selectedValue, checkedPayment) ==
    IF selectedValue = "money"
    THEN {"money", "payment"}
         \cup (IF checkedPayment = "pix" THEN {"pix"} ELSE {})
    ELSE IF selectedValue = "goods" THEN {"goods"}
    ELSE {}

\* line 842: volunteerTabButton.click() activates the volunteer tab
tabAfterToggle(selectedValue, tab) ==
    IF selectedValue = "time" THEN "tab-volunteer" ELSE tab

\* lines 852-853 and 886-887: the groups visible once initDonationForm
\* has run on markup h
InitialVisible(h) ==
    LET toggled == IF h.dtype # "none"
                   THEN toggleDonationFields(h.dtype, h.pay)
                   ELSE h.shown
    IN IF h.pay # "pix" THEN toggled \ {"pix"} ELSE toggled

\* the values form.reset() restores
DefaultFields(h) ==
    [donation |-> [dtype |-> h.dtype, pay |-> h.pay, amount |-> ""],
     volunteer |-> [name |-> "", skills |-> {}],
     newsletter |-> [email |-> <<>>]]

\* form.elements of the volunteer and donation forms as serializeForm sees
\* them: an enabled element of the given name, type, checked state and
\* value; a name is its pieces, the '[]' suffix spelled out
Element(name, type, checked, value) ==
    [name |-> name, type |-> type, disabled |-> FALSE, checked |-> checked,
     value |-> value]

\* document order of the skills[] checkboxes and of the radios
SkillOrder == <<"cook", "drive">>
DonationTypeOrder == <<"money", "goods", "time">>
PaymentOrder == <<"card", "pix">>

volunteerElements(v) ==
    <<Element(<<"name">>, "text", FALSE, v.name)>>
    \o [i \in 1..Len(SkillOrder) |->
           Element(<<"skills", "[", "]">>, "checkbox",
                   SkillOrder[i] \in v.skills, SkillOrder[i])]

donationElements(d) ==
    [i \in 1..Len(DonationTypeOrder) |->
        Element(<<"donation_type">>, "radio",
                DonationTypeOrder[i] = d.dtype, DonationTypeOrder[i])]
    \o <<Element(<<"amount">>, "text", FALSE, d.amount)>>
    \o [i \in 1..Len(PaymentOrder) |->
           Element(<<"payment_method">>, "radio",
                   PaymentOrder[i] = d.pay, PaymentOrder[i])]

\* line 979: Array.from(qsa('input[name="skills[]"]:checked')).map(value)
checkedSkills(v) == SelectSeq(SkillOrder, LAMBDA k : k \in v.skills)

\* the object each handler hands to the facade: lines 935-936, 977-981 and
\* 1001-1018
requestBody(f, current) ==
    CASE f = "donation" -> serializeForm(donationElements(current.donation))
      [] f = "volunteer" ->
            Put(serializeForm(volunteerElements(current.volunteer)),
                <<"skills">>, Arr(checkedSkills(current.volunteer)))
      [] f = "newsletter" -> (<<"email">> :> Str(current.newsletter.email))

\* the gateway call of form f in flight: the timer of its delay (line 101)
\* and the body it was given
Request(f, body) ==
    [body |-> body] @@ Timer("fetch", f, 0, FetchDelayMin, FetchDelayMax)

\* type=email constraint: one '@' with something on both sides
validEmail(e) ==
    \E i \in 2..(Len(e) - 1) :
        /\ e[i] = "@"
        /\ \A j \in DOMAIN e : e[j] = "@" => j = i

\* the sets of forms a page may hold: each init function returns at once
\* when its form is not in the document (lines 808, 957, 997)
Pages == {p \in SUBSET Forms : p # {} /\ Cardinality(p) <= MaxForms}

VARIABLES
    present,    \* the forms in the document
    html,       \* the donation form's static markup (its default selections)
    fields,     \* per form: the current values and checked states
    presets,    \* preset amount buttons carrying class 'active'
    visible,    \* conditional groups of the donation form that are shown
    activeTab,  \* appState.activeActionTab
    tabs,       \* attributes of the tabs and panels of the action center
    button,     \* per form: the submit control
    feedback,   \* per form: the .sgcf-feedback notices of its container
    timers,     \* pending setTimeout callbacks, in the order they were set
    pc,         \* per form: "idle", or "awaiting" the facade call
    original,   \* per form: originalButtonText of the running handler
    last        \* what the latest step did

pipeVars == <<present, html, fields, presets, visible, activeTab, tabs, button,
              feedback, timers, pc, original, last>>

\* form.checkValidity() (emailInput.checkValidity() for the newsletter):
\* each form has one required field
checkValidity(f) ==
    CASE f = "donation" -> fields.donation.amount # ""
      [] f = "volunteer" -> fields.volunteer.name # ""
      [] f = "newsletter" ->
            /\ fields.newsletter.email # <<>>
            /\ validEmail(fields.newsletter.email)

\* a handler that submits whatever the form holds
passesValidationSkipped(f) == TRUE

\* the handlers' validation test, lines 922, 964 and 1006: the form's own
\* validity, and for the newsletter a non-empty address as well
passesValidation(f) ==
    IF f = "newsletter"
    THEN fields.newsletter.email # <<>> /\ checkValidity(f)
    ELSE checkValidity(f)

Did(op, form, result) == [op |-> op, form |-> form, result |-> result]

\* the page once initializeApp has run on markup h, whose tab list marks
\* one tab as selected or none: initTabs activates the initial tab (lines
\* 478-479) before initDonationForm toggles the fields
PageLoad(p, h, marked) ==
    /\ present = p
    /\ html = h
    /\ fields = DefaultFields(h)
    /\ presets = {}
    /\ visible = InitialVisible(h)
    /\ activeTab = IF h.dtype = "none"
                   THEN initiallySelected(TabMarkup(marked))
                   ELSE tabAfterToggle(h.dtype,
                                       initiallySelected(TabMarkup(marked)))
    /\ tabs = LET widget == activateTab(TabMarkup(marked),
                                        initiallySelected(TabMarkup(marked)))
              IN IF h.dtype = "time"
                 THEN activateTab(widget, "tab-volunteer") ELSE widget
    /\ button = [f \in Forms |-> Control(FALSE, OriginalLabel(f), 0)]
    /\ feedback = [f \in Forms |-> <<>>]
    /\ timers = <<>>
    /\ pc = [f \in Forms |-> "idle"]
    /\ original = [f \in Forms |-> OriginalLabel(f)]
    /\ last = Did("other", "-", "-")

VARIABLES
    elements,   \* the form.elements list of the form being serialized
    serialized, \* whether serializeForm has returned
    data        \* the object serializeForm returned

serVars == <<elements, serialized, data>>

VARIABLES
    calls       \* the gateway and facade calls made so far, oldest first

gwVars == <<calls>>

VARIABLES
    markup,       \* what the document holds besides the forms
    stored,       \* localStorage under config.themeLocalStorageKey
    currentTheme, \* appState.currentTheme
    bodyClasses,  \* the theme-* classes of document.body, by theme name
    themeLabel,   \* aria-label of the toggle-theme button
    live,         \* the #sgcf-live-region elements of the body
    pageTimers,   \* pending setTimeout callbacks of the page, oldest first
    filters,      \* appState.currentFilters
    selects,      \* values of the two project filter selects
    projectCards, \* the .project-list: "static", or the ids rendered
    dashboardView,\* the dashboard widgets: "static" or "loaded"
    containers,   \* #dashboard and .project-list as loading targets
    pageFeedback, \* the notices of #dashboard and of .project-list
    lastClick,    \* what the latest click started
    trail         \* the stored value before each of the last two toggles

pageVars == <<markup, stored, currentTheme, bodyClasses, themeLabel, live,
              pageTimers, filters, selects, projectCards, dashboardView,
              containers, pageFeedback, lastClick, trail>>

\* what the form handlers leave alone
VARIABLES
    dropdowns,    \* per dropdown container: aria-expanded and is-open
    map,          \* the InteractiveMap of the dashboard
    alertsWidget, \* the alerts list and the badge of #widget-alerts
    formatted     \* the latest call of Utils.formatDate and what it returned

widgetVars == <<dropdowns, map, alertsWidget, formatted>>

otherVars == <<serVars, gwVars, pageVars, widgetVars>>

(***************************************************************************)
(* What the visitor does to the fields (change, click and input handlers   *)
(* of initDonationForm; the other two forms have none).                    *)
(***************************************************************************)
\* 'change' on a donation_type radio, lines 846-850
ChangeDonationType(v) ==
    /\ "donation" \in present
    /\ v # fields.donation.dtype
    /\ fields' = [fields EXCEPT !.donation.dtype = v]
    /\ visible' = toggleDonationFields(v, fields.donation.pay)
    /\ activeTab' = tabAfterToggle(v, activeTab)
    /\ tabs' = IF v = "time" THEN activateTab(tabs, "tab-volunteer") ELSE tabs
    /\ last' = Did("other", "-", "-")
    /\ UNCHANGED <<present, html, presets, button, feedback, timers, pc, original>>
    /\ UNCHANGED otherVars

\* 'change' on a payment_method radio, lines 874-884
ChangePayment(v) ==
    /\ "donation" \in present
    /\ v # fields.donation.pay
    /\ fields' = [fields EXCEPT !.donation.pay = v]
    /\ visible' = IF v = "pix" THEN visible \cup {"pix"}
                               ELSE visible \ {"pix"}
    /\ last' = Did("other", "-", "-")
    /\ UNCHANGED <<present, html, presets, activeTab, tabs, button, feedback, timers, pc,
                   original>>
    /\ UNCHANGED otherVars

\* a click that marks its button without unmarking the others
activatePresetKeepingOthers(active, b) == active \cup {b}

\* lines 861-862: 'active' removed from every preset button, then added to
\* the clicked one
activatePreset(active, b) == (active \ PresetAmounts) \cup {b}

\* 'click' on a preset amount button, lines 856-865
ClickPreset(b) ==
    /\ "donation" \in present
    /\ fields' = [fields EXCEPT !.donation.amount = b]
    /\ presets' = activatePreset(presets, b)
    /\ <<fields, presets>> # <<fields', presets'>>
    /\ last' = Did("other", "-", "-")
    /\ UNCHANGED <<present, html, visible, activeTab, tabs, button, feedback, timers, pc,
                   original>>
    /\ UNCHANGED otherVars

\* 'input' on the amount field, lines 867-871
InputAmount(v) ==
    /\ "donation" \in present
    /\ v # fields.donation.amount
    /\ fields' = [fields EXCEPT !.donation.amount = v]
    /\ presets' = {}
    /\ last' = Did("other", "-", "-")
    /\ UNCHANGED <<present, html, visible, activeTab, tabs, button, feedback, timers, pc,
                   original>>
    /\ UNCHANGED otherVars

\* typing in the volunteer form's required field
InputName(v) ==
    /\ "volunteer" \in present
    /\ v # fields.volunteer.name
    /\ fields' = [fields EXCEPT !.volunteer.name = v]
    /\ last' = Did("other", "-", "-")
    /\ UNCHANGED <<present, html, presets, visible, activeTab, tabs, button, feedback,
                   timers, pc, original>>
    /\ UNCHANGED otherVars

\* ticking or unticking a skills[] checkbox
ToggleSkill(k) ==
    /\ "volunteer" \in present
    /\ fields' = [fields EXCEPT !.volunteer.skills =
                      IF k \in @ THEN @ \ {k} ELSE @ \cup {k}]
    /\ last' = Did("other", "-", "-")
    /\ UNCHANGED <<present, html, presets, visible, activeTab, tabs, button, feedback,
                   timers, pc, original>>
    /\ UNCHANGED otherVars

\* typing in #footer-newsletter-email
InputEmail(v) ==
    /\ "newsletter" \in present
    /\ v # fields.newsletter.email
    /\ fields' = [fields EXCEPT !.newsletter.email = v]
    /\ last' = Did("other", "-", "-")
    /\ UNCHANGED <<present, html, presets, visible, activeTab, tabs, button, feedback,
                   timers, pc, original>>
    /\ UNCHANGED otherVars

\* a native reset of a form (a reset control of its markup): the values
\* and checked states return to their defaults; no listener of the script
\* is registered for it, so nothing else changes
NativeReset(f) ==
    /\ f \in present
    /\ fields[f] # DefaultFields(html)[f]
    /\ fields' = [fields EXCEPT ![f] = DefaultFields(html)[f]]
    /\ last' = Did("other", "-", "-")
    /\ UNCHANGED <<present, html, presets, visible, activeTab, tabs, button, feedback,
                   timers, pc, original>>
    /\ UNCHANGED otherVars

(***************************************************************************)
(* The submit handlers, lines 914-951, 959-991 and 999-1028.               *)
(***************************************************************************)
InvalidMessage(f) ==
    CASE f = "donation" -> <<"Por favor, corrija os erros no formulário.">>
      [] f = "volunteer" -> <<"Por favor, preencha os campos obrigatórios.">>
      [] f = "newsletter" -> <<"Por favor, insira um email válido.">>

DefaultSuccessMessage(f) ==
    CASE f = "donation" -> "Doação processada com sucesso!"
      [] f = "volunteer" ->
            "Inscrição enviada com sucesso! Entraremos em contato."
      [] f = "newsletter" -> "Inscrição realizada com sucesso!"

ErrorPrefix(f) ==
    CASE f = "donation" -> "Erro ao processar doação: "
      [] f = "volunteer" -> "Erro ao enviar inscrição: "
      [] f = "newsletter" -> "Erro na inscrição: "

\* lines 930-931, 972-973, 1014: the control disabled and, except for the
\* newsletter, relabelled
lockControl(f, control) ==
    LET off == [control EXCEPT !.disabled = TRUE] IN
    CASE f = "donation" -> setTextContent(off, "Processando...")
      [] f = "volunteer" -> setTextContent(off, "Enviando...")
      [] f = "newsletter" -> off

\* the finally blocks, lines 946-950, 986-990, 1023-1027
unlockControl(control, originalButtonText) ==
    setTextContent([hideLoading(control) EXCEPT !.disabled = FALSE],
                   originalButtonText)

\* a container looked up in the whole document: the first one found
feedbackContainerOfDocument(f) == "donation"

\* lines 916, 961 and 1003: the container of a form's notices is looked up
\* inside that form (its .form-actions, or the form itself)
feedbackContainer(f) == f

\* identity of the next feedback element: the first one no pending timer
\* still refers to
FreshId ==
    LET used == {timers[i].id : i \in DOMAIN timers}
    IN CHOOSE i \in 1..(Len(timers) + 1) :
           i \notin used /\ \A j \in 1..(i - 1) : j \in used

\* the submit event up to the handler's first await (or to its end)
SubmitIntent(f) ==
    /\ f \in present
    /\ ~button[f].disabled
    /\ pc[f] = "idle"
    /\ Len(timers) < MaxTimers
    /\ LET cleared == removeFirstNotice(feedback[feedbackContainer(f)])
           locked == lockControl(f, button[f])
           loading == showLoading(locked)
       IN IF ~passesValidation(f)
          THEN /\ feedback' = [feedback EXCEPT ![feedbackContainer(f)] =
                      displayFeedback(cleared, FreshId, "error",
                                      InvalidMessage(f))]
               /\ timers' = Append(timers, feedbackTimer(f, FreshId, "error"))
               /\ last' = Did("submit", f, "invalid")
               /\ UNCHANGED <<button, pc, original>>
          ELSE /\ feedback' = [feedback EXCEPT ![feedbackContainer(f)] = cleared]
               /\ original' = [original EXCEPT ![f] = button[f].text]
               /\ button' = [button EXCEPT ![f] = loading.target]
               /\ IF loading.threw
                  THEN /\ last' = Did("submit", f, "uncaught")
                       /\ UNCHANGED <<timers, pc>>
                  ELSE /\ timers' = Append(timers,
                              Request(f, requestBody(f, fields)))
                       /\ pc' = [pc EXCEPT ![f] = "awaiting"]
                       /\ last' = Did("submit", f, "awaiting")
    /\ UNCHANGED <<present, html, fields, presets, visible, activeTab, tabs>>
    /\ UNCHANGED otherVars

\* a pending timer may run once no timer set before it is due earlier
canFire(i) == \A j \in 1..(i - 1) : timers[i].lo < timers[j].hi

without(q, i) == SubSeq(q, 1, i - 1) \o SubSeq(q, i + 1, Len(q))

\* a setTimeout callback runs: a notice removes itself (line 593), or the
\* gateway's delay ends (line 101) and the suspended handler resumes
RunTimer(i) ==
    /\ canFire(i)
    /\ LET t == timers[i]
           f == t.form
           rest == without(timers, i)
           answer == facadeSubmit(f)
           used == {rest[k].id : k \in DOMAIN rest}
           id == CHOOSE n \in 1..(Len(rest) + 1) :
                     n \notin used /\ \A j \in 1..(n - 1) : j \in used
           defaults == DefaultFields(html)
           retoggled == IF html.dtype # "none"
                        THEN toggleDonationFields(html.dtype, html.pay)
                        ELSE visible
       IN IF t.kind = "feedback"
          THEN /\ feedback' = [feedback EXCEPT ![f] = removeNotice(@, t.id)]
               /\ timers' = rest
               /\ last' = Did("other", "-", "-")
               /\ UNCHANGED <<fields, presets, visible, activeTab, tabs, button,
                              pc>>
          ELSE /\ pc' = [pc EXCEPT ![f] = "idle"]
               /\ button' = [button EXCEPT ![f] =
                                 unlockControl(@, original[f])]
               /\ IF answer.returned
                  THEN /\ feedback' = [feedback EXCEPT ![feedbackContainer(f)] =
                              displayFeedback(@, id, "success",
                                  <<IF answer.message # ""
                                    THEN answer.message
                                    ELSE DefaultSuccessMessage(f)>>)]
                       /\ timers' = Append(rest,
                                           feedbackTimer(f, id, "success"))
                       /\ fields' = [fields EXCEPT ![f] = defaults[f]]
                       /\ IF f = "donation"
                          THEN /\ presets' = {}
                               /\ visible' = IF html.pay # "pix"
                                             THEN retoggled \ {"pix"}
                                             ELSE retoggled
                               /\ activeTab' =
                                     IF html.dtype # "none"
                                     THEN tabAfterToggle(html.dtype, activeTab)
                                     ELSE activeTab
                               /\ tabs' =
                                     IF html.dtype = "time"
                                     THEN activateTab(tabs, "tab-volunteer")
                                     ELSE tabs
                          ELSE UNCHANGED <<presets, visible, activeTab, tabs>>
                       /\ last' = Did("settle", f, "success")
                  ELSE /\ feedback' = [feedback EXCEPT ![feedbackContainer(f)] =
                              displayFeedback(@, id, "error",
                                  <<ErrorPrefix(f)>> \o answer.error)]
                       /\ timers' = Append(rest, feedbackTimer(f, id, "error"))
                       /\ last' = Did("settle", f, "failure")
                       /\ UNCHANGED <<fields, presets, visible, activeTab, tabs>>
    /\ UNCHANGED <<present, html, original>>
    /\ UNCHANGED otherVars


(***************************************************************************)
(* The gateway and the facade on their own: calls of Utils.fetchData and   *)
(* of the ApiService operations, and the timer that ends each delay.       *)
(***************************************************************************)
MaxCalls == 2

\* endpoints a caller may pass: the mocked paths, bare and with something
\* after them, and paths that are not mocked
GwEndpoints ==
    {<<>>, <<"/dashboard">>, <<"/dashboard", "?", "date=", "d1">>,
     <<"/dashboard", "s">>, <<"/projects">>, <<"/projects", "/x">>,
     <<"/process-donation">>, <<"/process-volunteer">>,
     <<"/subscribe-newsletter">>, <<"/other">>, <<"/api", "/dashboard">>}

\* filters under the keys the gateway reads
GatewayFilters ==
    [region : {"all", "MENA", "ASIA-SE", ""},
     type : {"all", "agriculture_support"}]

\* appState.currentFilters, lines 39-44
StateFilters ==
    [dashboardDate : {"d1"},
     projectRegion : {"all", "MENA"},
     projectType : {"all", "agriculture_support"}]

NoParams == [k \in {} |-> ""]

DirectCalls ==
    {<<e, NoOptions>> : e \in GwEndpoints}
    \cup {<<<<"/projects">>, [kind |-> "options", params |-> p]>> :
              p \in GatewayFilters}

FacadeCalls ==
    {<<"getDashboardData", a>> :
        a \in {NoParams, [date |-> "d1"], [date |-> ""]}}
    \cup {<<"getProjects", a>> :
              a \in {NoParams} \cup GatewayFilters \cup StateFilters}
    \cup {<<"submitDonation", "body">>, <<"submitVolunteerForm", "body">>,
          <<"submitNewsletter", "body">>}

\* a call that has reached the gateway's setTimeout (line 101) and has not
\* settled
Call(op, endpoint, options) ==
    [op |-> op, endpoint |-> endpoint, options |-> options,
     requests |-> 1, settles |-> 0, response |-> <<>>, result |-> <<>>]

GwIdle == calls = <<>>

\* Utils.fetchData(endpoint, options) up to its await, lines 94-101
CallGateway(endpoint, options) ==
    /\ Len(calls) < MaxCalls
    /\ calls' = Append(calls, Call("fetchData", endpoint, options))
    /\ UNCHANGED <<pipeVars, serVars, pageVars, widgetVars>>

\* an ApiService operation up to the gateway's await
CallFacade(op, arg) ==
    /\ Len(calls) < MaxCalls
    /\ calls' = Append(calls, Call(op, facadeEndpoint(op, arg),
                                   facadeOptions(op, arg)))
    /\ UNCHANGED <<pipeVars, serVars, pageVars, widgetVars>>

\* the delay of call i ends (line 101): the gateway settles and, for an
\* operation of the facade, the operation settles after it
EndDelay(i) ==
    /\ calls[i].settles = 0
    /\ LET c == calls[i]
           response == fetchData(c.endpoint, c.options)
       IN calls' = [calls EXCEPT ![i] =
              [c EXCEPT !.settles = 1,
                        !.response = response,
                        !.result = IF c.op = "fetchData" THEN response
                                   ELSE facadeContinue(c.op, response)]]
    /\ UNCHANGED <<pipeVars, serVars, pageVars, widgetVars>>

(***************************************************************************)
(* The page around the forms: theme, live region, dashboard and action     *)
(* center, and the click delegate of the body.                             *)
(***************************************************************************)
MaxPageTimers == 4
LiveRegionDelay == 1000

\* localStorage.getItem returned null
NothingStored == "(nothing)"

StoredValues == {NothingStored, "", "light", "dark", "blue"}

\* what the markup decides: whether #dashboard exists, whether #action-center
\* exists and holds a .project-list, and the data-action of the body
Markups ==
    [dashboard : BOOLEAN,
     projects : {"absent", "nolist", "list"},
     bodyAction : {"", "refresh-dashboard", "toggle-theme"}]

ClickTargets == {"refresh", "theme", "other"}
Dates == {"d1", "d2"}
RegionOptions == {"all", "MENA", "ASIA-SE"}
TypeOptions == {"all", "agriculture_support"}

\* line 37: localStorage.getItem(key) || 'light'
initialTheme(value) ==
    IF value \in {NothingStored, ""} THEN "light" ELSE value

\* a toggle that tells 'dark' from everything else
nextThemeFromDark(theme) == IF theme = "dark" THEN "light" ELSE "dark"

\* line 1500
nextTheme(theme) == IF theme = "light" THEN "dark" ELSE "light"

\* classList.remove('theme-light', 'theme-dark') and classList.add of the
\* theme's class, lines 1362-1363 and 1501-1502
withThemeClass(classes, theme) == (classes \ {"light", "dark"}) \cup {theme}

\* updateThemeToggleButton, lines 1512-1520
toggleButtonLabel(theme) ==
    IF theme = "dark" THEN "Mudar para Tema Claro"
                      ELSE "Mudar para Tema Escuro"

\* line 1508
themeMessage(theme) ==
    IF theme = "dark" THEN "Tema alterado para escuro."
                      ELSE "Tema alterado para claro."

LiveRegion(text, politeness) == [text |-> text, politeness |-> politeness]

\* a live region that is created anew on every call
updateLiveRegionAppending(regions, message, politeness) ==
    Append(regions, LiveRegion(message, politeness))

\* UI.updateLiveRegion up to its setTimeout, lines 603-615: the regions of
\* the body afterwards
updateLiveRegion(regions, message, politeness) ==
    IF regions = <<>>
    THEN <<LiveRegion(message, politeness)>>
    ELSE [regions EXCEPT ![1].text = message]

PageTimer(kind, target, id, endpoint, options, lo, hi) ==
    [kind |-> kind, target |-> target, id |-> id, endpoint |-> endpoint,
     options |-> options, lo |-> lo, hi |-> hi]

\* the setTimeout of UI.updateLiveRegion, line 617: it clears the element
\* the call wrote to
liveTimer(regions) ==
    PageTimer("live", "-", Len(regions), <<>>, NoOptions,
              LiveRegionDelay, LiveRegionDelay)

\* the setTimeout of Utils.fetchData (line 101) under a page load
fetchTimer(kind, endpoint, options) ==
    PageTimer(kind, "-", 0, endpoint, options, FetchDelayMin, FetchDelayMax)

\* the setTimeout of UI.displayFeedback (lines 592-594) for a page notice
noticeTimer(target, id, type) ==
    PageTimer("notice", target, id, <<>>, NoOptions,
              IF type = "error" THEN ErrorNoticeDelay ELSE NoticeDelay,
              IF type = "error" THEN ErrorNoticeDelay ELSE NoticeDelay)

\* a pending timer may run once no timer set before it is due earlier
dueFirst(q, i) == \A j \in 1..(i - 1) : q[i].lo < q[j].hi

\* identity of the next notice: the first one no pending timer refers to
freshNoticeId(q) ==
    LET used == {q[k].id : k \in {j \in DOMAIN q : q[j].kind = "notice"}}
    IN CHOOSE n \in 1..(Len(q) + 1) :
           n \notin used /\ \A j \in 1..(n - 1) : j \in used

\* the part of the page a load works on
LoadState(c, l, t, fb, n) ==
    [containers |-> c, live |-> l, pageTimers |-> t, pageFeedback |-> fb,
     requests |-> n]

\* UI.updateLiveRegion(message, politeness) as a whole
announce(st, message, politeness) ==
    LET regions == updateLiveRegion(st.live, message, politeness)
    IN [st EXCEPT !.live = regions,
                  !.pageTimers = Append(@, liveTimer(regions))]

\* UI.displayFeedback(message, container, 'error') on a page container;
\* without a container the message goes to alert() (lines 549-553)
notify(st, target, found, message) ==
    IF ~found THEN st
    ELSE LET id == freshNoticeId(st.pageTimers)
         IN [st EXCEPT !.pageFeedback[target] =
                            displayFeedback(@, id, "error", message),
                       !.pageTimers =
                            Append(@, noticeTimer(target, id, "error"))]

\* DashboardPage.loadData up to its await, lines 1119-1127
loadDataStart(st, hasSection, date) ==
    LET section == IF hasSection THEN st.containers.dashboard ELSE Null
        loading == showLoading(section)
        shown == IF hasSection
                 THEN [st EXCEPT !.containers.dashboard = loading.target]
                 ELSE st
        told == announce(shown, "Atualizando dados do painel...", "polite")
    IN IF loading.threw
       THEN shown
       ELSE [told EXCEPT
               !.pageTimers =
                   Append(@, fetchTimer("loadData",
                       facadeEndpoint("getDashboardData", [date |-> date]),
                       facadeOptions("getDashboardData", [date |-> date]))),
               !.requests = @ + 1]

\* DashboardPage.loadData after its await, lines 1128-1139: updateStats,
\* updateAlerts and renderMarkers fill the widgets of #dashboard; the finally
\* block throws when there is no section
loadDataEnd(st, hasSection, result) ==
    LET done == IF result.resolved
                THEN announce(st, "Dados do painel atualizados.", "polite")
                ELSE announce(
                         notify(st, "dashboard", hasSection,
                                <<"Erro ao carregar dados do painel: ">>
                                    \o result.error),
                         "Falha ao atualizar dados do painel.", "assertive")
    IN IF hasSection
       THEN [done EXCEPT !.containers.dashboard = hideLoading(@)]
       ELSE done

\* `${projects.length} projetos encontrados.`, line 1298
countMessage(n) ==
    CASE n = 0 -> "0 projetos encontrados."
      [] n = 1 -> "1 projetos encontrados."
      [] n = 2 -> "2 projetos encontrados."
      [] n = 3 -> "3 projetos encontrados."
      [] OTHER -> "4 projetos encontrados."

\* ActionCenterPage.loadProjects up to its await, lines 1287-1296
loadProjectsStart(st, hasList, currentFilters) ==
    LET loading == showLoading(st.containers.projects)
        shown == [st EXCEPT !.containers.projects = loading.target]
        told == announce(shown, "Atualizando lista de projetos...", "polite")
    IN IF ~hasList THEN st
       ELSE IF loading.threw THEN shown
       ELSE [told EXCEPT
               !.pageTimers =
                   Append(@, fetchTimer("loadProjects",
                       facadeEndpoint("getProjects", currentFilters),
                       facadeOptions("getProjects", currentFilters))),
               !.requests = @ + 1]

\* the ids of the cards renderProjects builds, lines 1308-1352 (none: the
\* 'Nenhum projeto encontrado' paragraph)
renderProjects(projects) == [k \in DOMAIN projects |-> projects[k].id]

\* ActionCenterPage.loadProjects after its await, lines 1297-1305;
\* renderProjects empties the container first (line 1312), which takes the
\* loader and any notice with it
loadProjectsEnd(st, result) ==
    LET emptied == [st EXCEPT !.containers.projects.loaders = 0,
                              !.pageFeedback.projects = <<>>]
        done == IF result.resolved
                THEN announce(emptied, countMessage(Len(result.value)),
                              "polite")
                ELSE announce(
                         notify(st, "projects", TRUE,
                                <<"Erro ao carregar projetos: ">>
                                    \o result.error),
                         "Falha ao atualizar lista de projetos.",
                         "assertive")
    IN [done EXCEPT !.containers.projects = hideLoading(@)]

\* event.target.closest('[data-action]') inside the body, lines 254-256: the
\* two buttons carry the attribute, and so may the body
delegateMatches(target) ==
    target \in {"refresh", "theme"} \/ markup.bodyAction # ""

\* lines 1393-1394: the action is read from event.currentTarget, the element
\* the listener is attached to, which is the body
delegatedAction(target) ==
    IF delegateMatches(target) THEN markup.bodyAction ELSE "-"

Started(runs, requests) == [runs |-> runs, requests |-> requests]

PageLoaded(m, value) ==
    /\ markup = m
    /\ stored = value
    /\ currentTheme = initialTheme(value)
    /\ bodyClasses = withThemeClass({}, initialTheme(value))
    /\ themeLabel = toggleButtonLabel(initialTheme(value))
    /\ live = <<>>
    /\ pageTimers = <<>>
    /\ filters = [dashboardDate |-> "d1", projectRegion |-> "all",
                  projectType |-> "all"]
    /\ selects = [region |-> "all", type |-> "all"]
    /\ projectCards = <<"static">>
    /\ dashboardView = "static"
    /\ containers = [dashboard |-> Control(FALSE, "", 0),
                     projects |-> Control(FALSE, "", 0)]
    /\ pageFeedback = [dashboard |-> <<>>, projects |-> <<>>]
    /\ lastClick = Started(0, 0)
    /\ trail = <<>>

\* the page of the other specifications
PageIdle ==
    PageLoaded([dashboard |-> FALSE, projects |-> "absent", bodyAction |-> ""],
               NothingStored)

current == LoadState(containers, live, pageTimers, pageFeedback, 0)

\* the loads write their part of the page back
becomes(st) ==
    /\ containers' = st.containers
    /\ live' = st.live
    /\ pageTimers' = st.pageTimers
    /\ pageFeedback' = st.pageFeedback

\* toggleTheme(), lines 1499-1509, run on the page as the earlier listeners
\* of the same click left it
toggleTheme(st) ==
    LET theme == nextTheme(currentTheme)
    IN /\ currentTheme' = theme
       /\ bodyClasses' = withThemeClass(bodyClasses, theme)
       /\ stored' = theme
       /\ themeLabel' = toggleButtonLabel(theme)
       /\ becomes(announce(st, themeMessage(theme), "polite"))
       /\ trail' = IF Len(trail) = 2 THEN <<trail[2], stored>>
                                     ELSE Append(trail, stored)

\* a click: the listener of the refresh button (line 1111, set by
\* DashboardPage.init) and then the delegate of the body (lines 1392-1421)
Click(target) ==
    /\ Len(pageTimers) + 2 <= MaxPageTimers
    /\ LET direct == target = "refresh" /\ markup.dashboard
           action == delegatedAction(target)
           first == IF direct
                    THEN loadDataStart(current, markup.dashboard,
                                       filters.dashboardDate)
                    ELSE current
           second == IF action = "refresh-dashboard"
                     THEN loadDataStart(first, markup.dashboard,
                                        filters.dashboardDate)
                     ELSE first
           runs == (IF direct THEN 1 ELSE 0)
                     + (IF action = "refresh-dashboard" THEN 1 ELSE 0)
       IN /\ lastClick' = Started(runs, second.requests)
          /\ IF action = "toggle-theme"
             THEN toggleTheme(first)
             ELSE /\ becomes(second)
                  /\ UNCHANGED <<stored, currentTheme, bodyClasses,
                                 themeLabel, trail>>
    /\ UNCHANGED <<markup, filters, selects, projectCards, dashboardView>>
    /\ UNCHANGED <<pipeVars, serVars, gwVars, widgetVars>>

\* 'change' on the date filter, lines 1223-1227; the listener is set by
\* DashboardPage.init (line 1110)
ChangeDate(d) ==
    /\ markup.dashboard
    /\ d # filters.dashboardDate
    /\ Len(pageTimers) + 2 <= MaxPageTimers
    /\ filters' = [filters EXCEPT !.dashboardDate = d]
    /\ becomes(loadDataStart(current, markup.dashboard, d))
    /\ UNCHANGED <<markup, stored, currentTheme, bodyClasses, themeLabel,
                   selects, projectCards, dashboardView, lastClick, trail>>
    /\ UNCHANGED <<pipeVars, serVars, gwVars, widgetVars>>

\* 'change' on one of the two project filters, lines 1278-1285; the
\* listeners are set by ActionCenterPage.init (lines 1271-1272)
ChangeProjectFilter(which, v) ==
    /\ markup.projects # "absent"
    /\ v # selects[which]
    /\ Len(pageTimers) + 2 <= MaxPageTimers
    /\ LET chosen == [selects EXCEPT ![which] = v]
           wanted == [filters EXCEPT !.projectRegion = chosen.region,
                                     !.projectType = chosen.type]
       IN /\ selects' = chosen
          /\ filters' = wanted
          /\ becomes(loadProjectsStart(current, markup.projects = "list",
                                       wanted))
    /\ UNCHANGED <<markup, stored, currentTheme, bodyClasses, themeLabel,
                   projectCards, dashboardView, lastClick, trail>>
    /\ UNCHANGED <<pipeVars, serVars, gwVars, widgetVars>>

\* a setTimeout callback of the page runs: the live region is cleared (line
\* 617), a notice removes itself (line 593), or the gateway's delay ends
\* (line 101) and the suspended load resumes
RunPageTimer(i) ==
    /\ dueFirst(pageTimers, i)
    /\ LET t == pageTimers[i]
           rest == [current EXCEPT !.pageTimers = without(pageTimers, i)]
           op == IF t.kind = "loadData" THEN "getDashboardData"
                                        ELSE "getProjects"
           result == facadeContinue(op, fetchData(t.endpoint, t.options))
       IN CASE t.kind = "live" ->
                 /\ becomes([rest EXCEPT !.live[t.id].text = ""])
                 /\ UNCHANGED <<projectCards, dashboardView>>
            [] t.kind = "notice" ->
                 /\ becomes([rest EXCEPT !.pageFeedback[t.target] =
                                             removeNotice(@, t.id)])
                 /\ UNCHANGED <<projectCards, dashboardView>>
            [] t.kind = "loadData" ->
                 /\ becomes(loadDataEnd(rest, markup.dashboard, result))
                 /\ dashboardView' =
                       IF result.resolved /\ markup.dashboard
                       THEN "loaded" ELSE dashboardView
                 /\ UNCHANGED projectCards
            [] t.kind = "loadProjects" ->
                 /\ becomes(loadProjectsEnd(rest, result))
                 /\ projectCards' =
                       IF result.resolved
                       THEN renderProjects(result.value) ELSE projectCards
                 /\ UNCHANGED dashboardView
    /\ UNCHANGED <<markup, stored, currentTheme, bodyClasses, themeLabel,
                   filters, selects, lastClick, trail>>
    /\ UNCHANGED <<pipeVars, serVars, gwVars, widgetVars>>

(***************************************************************************)
(* The widgets on their own: the tabs, the dropdowns, the map and the      *)
(* alerts of a page that has them all, and calls of Utils.formatDate.      *)
(***************************************************************************)
MaxRenders == 2
MaxAgeHours == 170

\* the instants at which dates are formatted and alerts rendered: the 30th
\* at 23:00, the 1st of the next month at 00:00 and its 2nd at noon
Nows == {719, 720, 756}

\* the lists updateAlerts may be given
AlertLists == {<<>>, Alerts, <<Alerts[2], Alerts[4]>>}

NotFormatted == [date |-> 0, now |-> 0, result |-> Formatted("", 0)]

\* the widgets before anything happens to them: every dropdown closed, the
\* map just constructed, no alert listed and the badge hidden
WidgetIdle ==
    /\ dropdowns = [c \in DropdownContainers |->
                       [expanded |-> "false", open |-> FALSE]]
    /\ map = InteractiveMap
    /\ alertsWidget = [items |-> <<>>, badge |-> Badge(0, "none")]
    /\ formatted = NotFormatted

\* 'click' on a tab, lines 446-448
ClickTab(t) ==
    /\ tabs' = activateTab(tabs, t)
    /\ activeTab' = t
    /\ last' = Did("click", t, "-")
    /\ UNCHANGED <<present, html, fields, presets, visible, button, feedback,
                   timers, pc, original>>
    /\ UNCHANGED otherVars

\* 'keydown' on tab t, lines 451-468
KeyTab(t, key) ==
    LET currentTabIndex == (CHOOSE k \in DOMAIN TabOrder : TabOrder[k] = t) - 1
        next == nextTabIndex(key, currentTabIndex)
    IN /\ IF next # -1
          THEN /\ tabs' = activateTab(tabs, TabOrder[next + 1])
               /\ activeTab' = TabOrder[next + 1]
          ELSE UNCHANGED <<tabs, activeTab>>
       /\ last' = Did("key", t, key)
       /\ UNCHANGED <<present, html, fields, presets, visible, button,
                      feedback, timers, pc, original>>
       /\ UNCHANGED otherVars

\* 'click' on the toggle of a dropdown, lines 340-348; the click does not
\* reach the document (line 341), and setAttribute writes !isExpanded as a
\* string
ClickToggle(c) ==
    /\ LET isExpanded == dropdowns[c].expanded = "true"
           others == closeAllDropdowns(dropdowns, c)
       IN dropdowns' = [others EXCEPT ![c] =
              [expanded |-> IF isExpanded THEN "false" ELSE "true",
               open |-> ~isExpanded]]
    /\ UNCHANGED <<map, alertsWidget, formatted>>
    /\ UNCHANGED <<pipeVars, serVars, gwVars, pageVars>>

\* 'keydown' inside a dropdown: Escape (lines 351-356), or Tab on its last
\* item and Shift+Tab on its first (lines 374-378), run closeDropdown (lines
\* 334-338); the arrow keys move the focus only
KeyInDropdown(c, key) ==
    /\ dropdowns' = IF key \in {"Escape", "TabOut"}
                    THEN [dropdowns EXCEPT
                            ![c] = [expanded |-> "false", open |-> FALSE]]
                    ELSE dropdowns
    /\ UNCHANGED <<map, alertsWidget, formatted>>
    /\ UNCHANGED <<pipeVars, serVars, gwVars, pageVars>>

\* a click that reaches the document, lines 397-399
ClickOutside ==
    /\ dropdowns' = closeAllDropdowns(dropdowns, "null")
    /\ UNCHANGED <<map, alertsWidget, formatted>>
    /\ UNCHANGED <<pipeVars, serVars, gwVars, pageVars>>

\* the timer of the map's constructor runs (line 712):
\* _finishInitialization(), lines 715-721, assigns innerHTML
FinishInitialization ==
    /\ map.initializing
    /\ map' = [map EXCEPT !.content = <<"p:ready">>, !.initializing = FALSE]
    /\ UNCHANGED <<dropdowns, alertsWidget, formatted>>
    /\ UNCHANGED <<pipeVars, serVars, gwVars, pageVars>>

\* a call of mapInstance.renderMarkers(data), line 1130
RenderMarkers(points) ==
    /\ map.renders < MaxRenders
    /\ map' = renderMarkers(map, points)
    /\ UNCHANGED <<dropdowns, alertsWidget, formatted>>
    /\ UNCHANGED <<pipeVars, serVars, gwVars, pageVars>>

\* a call of DashboardPage.updateAlerts(alerts), line 1129, at instant now
UpdateAlerts(alerts, now) ==
    /\ alertsWidget' = updateAlerts(alertsWidget, alerts, now)
    /\ UNCHANGED <<dropdowns, map, formatted>>
    /\ UNCHANGED <<pipeVars, serVars, gwVars, pageVars>>

\* a call of Utils.formatDate(date) at instant now
FormatDate(date, now) ==
    /\ formatted' = [date |-> date, now |-> now,
                     result |-> formatDate(date, now)]
    /\ UNCHANGED <<dropdowns, map, alertsWidget>>
    /\ UNCHANGED <<pipeVars, serVars, gwVars, pageVars>>

\* no form is being serialized
SerIdle ==
    /\ elements = <<>>
    /\ serialized = FALSE
    /\ data = <<>>

\* the markup the serializer's own specification loads the page with
PlainHtml == [dtype |-> "money", pay |-> "card", shown |-> {}]

SerInit ==
    /\ PageLoad(Forms, PlainHtml, "none")
    /\ elements \in ElementLists
    /\ serialized = FALSE
    /\ data = <<>>
    /\ GwIdle
    /\ PageIdle
    /\ WidgetIdle

\* a call of FormHandler.serializeForm(form)
Serialize ==
    /\ ~serialized
    /\ serialized' = TRUE
    /\ data' = serializeForm(elements)
    /\ UNCHANGED elements
    /\ UNCHANGED <<pipeVars, gwVars, pageVars, widgetVars>>

vars == <<pipeVars, serVars, gwVars, pageVars, widgetVars>>

SerNext == Serialize

SerSpec == SerInit /\ [][SerNext]_vars

Init ==
    /\ \E p \in Pages :
        \E h \in HtmlConfigs :
            /\ "donation" \notin p => h = PlainHtml
            /\ PageLoad(p, h, "none")
    /\ SerIdle
    /\ GwIdle
    /\ PageIdle
    /\ WidgetIdle

Next ==
    \/ \E v \in DonationTypes : ChangeDonationType(v)
    \/ \E v \in PaymentMethods : ChangePayment(v)
    \/ \E b \in PresetAmounts : ClickPreset(b)
    \/ \E v \in TypedAmounts : InputAmount(v)
    \/ \E v \in VolunteerNames : InputName(v)
    \/ \E k \in Skills : ToggleSkill(k)
    \/ \E v \in Emails : InputEmail(v)
    \/ \E f \in Forms : NativeReset(f)
    \/ \E f \in Forms : SubmitIntent(f)
    \/ \E i \in DOMAIN timers : RunTimer(i)

Spec == Init /\ [][Next]_vars

GwInit ==
    /\ PageLoad(Forms, PlainHtml, "none")
    /\ SerIdle
    /\ GwIdle
    /\ PageIdle
    /\ WidgetIdle

GwNext ==
    \/ \E c \in DirectCalls : CallGateway(c[1], c[2])
    \/ \E c \in FacadeCalls : CallFacade(c[1], c[2])
    \/ \E i \in DOMAIN calls : EndDelay(i)

\* setTimeout callbacks run: every delay ends
GwSpec ==
    GwInit /\ [][GwNext]_vars /\ WF_vars(\E i \in DOMAIN calls : EndDelay(i))

PageInit ==
    /\ PageLoad(Forms, PlainHtml, "none")
    /\ SerIdle
    /\ GwIdle
    /\ \E m \in Markups : \E value \in StoredValues : PageLoaded(m, value)
    /\ WidgetIdle

\* a page with the tab container, the three dropdowns and the dashboard
WidgetInit ==
    /\ \E marked \in TabIds \cup {"none"} : PageLoad(Forms, PlainHtml, marked)
    /\ SerIdle
    /\ GwIdle
    /\ PageIdle
    /\ WidgetIdle

WidgetNext ==
    \/ \E t \in TabIds : ClickTab(t)
    \/ \E t \in TabIds : \E key \in {"ArrowRight", "ArrowLeft", "Home", "End", "Enter"} :
          KeyTab(t, key)
    \/ \E c \in DropdownContainers : ClickToggle(c)
    \/ \E c \in DropdownContainers :
          \E key \in {"Escape", "TabOut", "ArrowDown"} : KeyInDropdown(c, key)
    \/ ClickOutside
    \/ FinishInitialization
    \/ \E points \in {<<>>, <<"MENA">>, MapData} : RenderMarkers(points)
    \/ \E alerts \in AlertLists : \E now \in Nows :
          UpdateAlerts(alerts, now)

\* the timer of the map's constructor runs
WidgetSpec ==
    WidgetInit /\ [][WidgetNext]_vars /\ WF_vars(FinishInitialization)

DateInit ==
    /\ PageLoad(Forms, PlainHtml, "none")
    /\ SerIdle
    /\ GwIdle
    /\ PageIdle
    /\ WidgetIdle

DateNext ==
    \E now \in Nows : \E age \in 0..MaxAgeHours : FormatDate(now - age, now)

DateSpec == DateInit /\ [][DateNext]_vars

PageNext ==
    \/ \E target \in ClickTargets : Click(target)
    \/ \E d \in Dates : ChangeDate(d)
    \/ \E v \in RegionOptions : ChangeProjectFilter("region", v)
    \/ \E v \in TypeOptions : ChangeProjectFilter("type", v)
    \/ \E i \in DOMAIN pageTimers : RunPageTimer(i)

\* setTimeout callbacks run
PageSpec ==
    PageInit /\ [][PageNext]_vars
      /\ WF_vars(\E i \in DOMAIN pageTimers : RunPageTimer(i))

(***************************************************************************)
(* Claims about serializeForm (checked under SerSpec).                     *)
(***************************************************************************)
\* indexes of the elements that carry name n
Named(n) == {i \in DOMAIN elements : elements[i].name = n}

\* name n is carried by a checkbox group: by checkboxes and nothing else
CheckboxGroup(n) ==
    /\ Named(n) # {}
    /\ \A i \in Named(n) : elements[i].type = "checkbox"

NoBoxChecked(n) == \A i \in Named(n) : ~elements[i].checked

SomeBoxEnabled(n) == \E i \in Named(n) : ~elements[i].disabled

PresentAndEmpty(n) ==
    /\ n \in DOMAIN data
    /\ data[n].kind = "arr"
    /\ data[n].v = <<>>

\* C9 as stated: serializeForm on a form with a checkbox group whose name
\* ends in '[]' and with no box checked returns a result in which that name
\* is present and maps to an empty sequence.
C9_EmptyGroupPresent ==
    serialized =>
        \A n \in ElementNames :
            (EndsWithBrackets(n) /\ CheckboxGroup(n) /\ NoBoxChecked(n))
                => PresentAndEmpty(n)

\* C9 amended: the same, for a group with at least one enabled box (a
\* disabled element is skipped by serializeForm, so a group whose boxes
\* are all disabled leaves the key absent).
C9_EmptyEnabledGroupPresent ==
    serialized =>
        \A n \in ElementNames :
            (/\ EndsWithBrackets(n)
             /\ CheckboxGroup(n)
             /\ NoBoxChecked(n)
             /\ SomeBoxEnabled(n))
                => PresentAndEmpty(n)

\* a group of two unchecked boxes named 'a[]', one of them disabled, has
\* been serialized to an empty sequence
C9_Witness ==
    /\ serialized
    /\ \E n \in ElementNames :
        /\ EndsWithBrackets(n)
        /\ CheckboxGroup(n)
        /\ NoBoxChecked(n)
        /\ Cardinality(Named(n)) = 2
        /\ \E i \in Named(n) : elements[i].disabled
        /\ SomeBoxEnabled(n)
        /\ PresentAndEmpty(n)

\* the checked boxes named n, in document order, and their values
CheckedBoxes(n) ==
    SelectSeq(elements, LAMBDA e : e.name = n /\ e.type = "checkbox" /\ e.checked)

ValuesOf(boxes) == [i \in 1..Len(boxes) |-> boxes[i].value]

\* C10: in a form where two or more checked checkboxes share one name that
\* lacks the '[]' suffix, serializeForm maps that name to the sequence of all
\* their values in document order, for every choice of the values.  Stated
\* for names carried by enabled checkboxes only.
C10_SharedNameYieldsSequence ==
    serialized =>
        \A n \in ElementNames :
            (/\ n # <<>>
             /\ ~EndsWithBrackets(n)
             /\ CheckboxGroup(n)
             /\ \A i \in Named(n) : ~elements[i].disabled
             /\ Len(CheckedBoxes(n)) >= 2)
                => /\ n \in DOMAIN data
                   /\ data[n].kind = "arr"
                   /\ data[n].v = ValuesOf(CheckedBoxes(n))

\* an element serializeForm is meant to leave out: disabled, a file input,
\* or a reset, submit or button control
Excluded(e) ==
    e.disabled \/ e.type \in {"file", "reset", "submit", "button"}

Checkable(e) == e.type \in {"checkbox", "radio"}

\* the enabled checked boxes named n, in document order
EnabledCheckedBoxes(n) ==
    SelectSeq(elements,
              LAMBDA e : /\ e.name = n
                         /\ e.type = "checkbox"
                         /\ e.checked
                         /\ ~e.disabled)

\* C11: every key of the result that ends in '[]' maps to a sequence, never
\* a scalar, whatever the type, number and checked state of the enabled
\* elements carrying that name; when those are all checkboxes the sequence
\* holds exactly the checked values in document order.
C11_BracketKeysAreSequences ==
    serialized =>
        \A n \in DOMAIN data :
            EndsWithBrackets(n) =>
                /\ data[n].kind = "arr"
                /\ (\A i \in Named(n) :
                        ~elements[i].disabled
                            => elements[i].type = "checkbox")
                      => data[n].v = ValuesOf(EnabledCheckedBoxes(n))

\* the value v is held under key n, as the scalar or inside the sequence
HeldUnder(n, v) ==
    IF data[n].kind = "arr"
    THEN \E k \in DOMAIN data[n].v : data[n].v[k] = v
    ELSE data[n].v = v

\* C12: no disabled element, file input or reset/submit/button control
\* contributes to the result: the result is the one of the form without
\* these elements, a name carried only by such elements is absent, and the
\* value of a file input or button control appears under no key.
C12_ExcludedElementsContributeNothing ==
    serialized =>
        /\ data = serializeForm(SelectSeq(elements, LAMBDA e : ~Excluded(e)))
        /\ \A n \in ElementNames :
              (\A i \in Named(n) : Excluded(elements[i]))
                  => n \notin DOMAIN data
        /\ \A n \in DOMAIN data : ~HeldUnder(n, "f")

\* a name shared by an enabled input holding 'x' and, after it, a disabled
\* input holding 'y' or a file or button control has been serialized to
\* 'x' alone
C12_Witness ==
    /\ serialized
    /\ \E n \in ElementNames :
        /\ \E i, j \in Named(n) :
              /\ i < j
              /\ ~Excluded(elements[i])
              /\ Excluded(elements[j])
              /\ elements[j].value \in {"y", "f"}
        /\ n \in DOMAIN data
        /\ data[n] = Str("x")

\* C13 as stated: each enabled, named element that is not a file input or a
\* reset/submit/button control has its name among the keys of the result,
\* whatever its type and checked state.
C13_EveryEnabledElementHasKey ==
    serialized =>
        \A i \in DOMAIN elements :
            (elements[i].name # <<>> /\ ~Excluded(elements[i]))
                => elements[i].name \in DOMAIN data

\* an unchecked box that serializeForm leaves out: a radio, or a checkbox
\* whose name lacks the '[]' suffix
OmittedWhenUnchecked(e) ==
    /\ Checkable(e)
    /\ ~e.checked
    /\ ~(e.type = "checkbox" /\ EndsWithBrackets(e.name))

\* C13 amended: the same for every such element except an unchecked radio
\* and an unchecked checkbox whose name lacks the '[]' suffix.
C13_EveryContributingElementHasKey ==
    serialized =>
        \A i \in DOMAIN elements :
            (/\ elements[i].name # <<>>
             /\ ~Excluded(elements[i])
             /\ ~OmittedWhenUnchecked(elements[i]))
                => elements[i].name \in DOMAIN data

\* a checked radio and an unchecked radio under different names have been
\* serialized: the first name is a key, the second is not
C13_Witness ==
    /\ serialized
    /\ \E i, j \in DOMAIN elements :
        /\ elements[i].type = "radio" /\ elements[j].type = "radio"
        /\ ~elements[i].disabled /\ ~elements[j].disabled
        /\ elements[i].checked /\ ~elements[j].checked
        /\ elements[i].name # elements[j].name
        /\ elements[i].name \in DOMAIN data
        /\ elements[j].name \notin DOMAIN data

\* the enabled inputs named n that are neither checkbox nor radio (nor an
\* excluded control)
PlainInputs(n) ==
    {i \in Named(n) : ~Excluded(elements[i]) /\ ~Checkable(elements[i])}

LastOf(idx) == CHOOSE i \in idx : \A j \in idx : j <= i

Outstanding(f) ==
    {i \in DOMAIN timers : timers[i].kind = "fetch" /\ timers[i].form = f}

\* a validated submission of form f has just ended: its handler returned
\* or terminated in the step that led here
Ended(f) ==
    /\ last.form = f
    /\ last.result \in {"success", "failure", "uncaught"}

\* the gateway accepts what form f submits
Accepted(f) ==
    LET response == fetchData(Endpoint(f), NoOptions)
    IN response.ok /\ response.success

\* the required field of form f violates its constraint
ViolatesConstraint(f) ==
    CASE f = "donation" -> fields.donation.amount = ""
      [] f = "volunteer" -> fields.volunteer.name = ""
      [] f = "newsletter" ->
            \A i \in DOMAIN fields.newsletter.email :
                fields.newsletter.email[i] # "@"

\* C1: every submit intent that passes validation and disables the submit
\* control is followed by a state in which the control is enabled again,
\* carries the label it had before the submit and has no loading indicator:
\* once no request of the form is pending, the control is as it was.
C1_ControlRestored ==
    \A f \in Forms :
        Outstanding(f) = {} =>
            /\ ~button[f].disabled
            /\ button[f].text = OriginalLabel(f)
            /\ button[f].loaders = 0

\* C2: every validated submission issues exactly one gateway request, and
\* the control is disabled from the lock until that request settles: a
\* form has one request outstanding while its control is disabled and none
\* while it is enabled.
C2_OneRequestWhileDisabled ==
    \A f \in Forms :
        Cardinality(Outstanding(f)) = IF button[f].disabled THEN 1 ELSE 0

\* C3: a submit intent whose native validation fails makes no gateway
\* request, leaves every field value and the submit control unchanged, and
\* leaves exactly one notice, of severity error, in the form's container.
C3_InvalidSubmitOnlyReports ==
    [][\A f \in Forms :
          (last'.op = "submit" /\ last'.form = f /\ ViolatesConstraint(f))
              => /\ \A g \in Forms : Outstanding(g)' = Outstanding(g)
                 /\ Len(SelectSeq(timers', LAMBDA t : t.kind = "fetch"))
                      = Len(SelectSeq(timers, LAMBDA t : t.kind = "fetch"))
                 /\ fields' = fields
                 /\ presets' = presets
                 /\ visible' = visible
                 /\ button' = button
                 /\ Len(feedback'[f]) = 1
                 /\ feedback'[f][1].type = "error"
                 /\ feedback'[f][1].message # <<>>]_vars

\* a second invalid submit intent of one form has replaced the notice of the
\* first, whose timer is still pending
C3_Witness ==
    \E f \in Forms :
        /\ last = Did("submit", f, "invalid")
        /\ ViolatesConstraint(f)
        /\ Len(feedback[f]) = 1
        /\ feedback[f][1].type = "error"
        /\ ~button[f].disabled
        /\ Cardinality({i \in DOMAIN timers : timers[i].form = f}) = 2

\* C4: an error raised while a validated submission is processed ends as an
\* error notice with a non-empty message and the control enabled again; the
\* submit handler never terminates with an uncaught error.
C4_ErrorsEndAsNotice ==
    \A f \in Forms :
        /\ ~(last.form = f /\ last.result = "uncaught")
        /\ (last.form = f /\ last.result = "failure")
              => /\ feedback[f] # <<>>
                 /\ feedback[f][1].type = "error"
                 /\ feedback[f][1].message # <<>>
                 /\ ~button[f].disabled

\* C5: while a form is submitting its control is disabled and carries
\* exactly one loading indicator; while it is idle the control is enabled
\* and carries none.
C5_OneLoaderWhileDisabled ==
    \A f \in Forms :
        button[f].loaders = IF button[f].disabled THEN 1 ELSE 0

\* C6: a validated submission that the gateway accepts ends with a success
\* notice carrying the response message (or the form's default message),
\* with the form's fields at their initial values and (donation form) with
\* no preset amount button active.
C6_AcceptedEndsInSuccess ==
    \A f \in Forms :
        (Ended(f) /\ Accepted(f))
            => /\ feedback[f] # <<>>
               /\ feedback[f][1].type = "success"
               /\ feedback[f][1].message \in
                     {<<fetchData(Endpoint(f), NoOptions).message>>,
                      <<DefaultSuccessMessage(f)>>}
               /\ fields[f] = DefaultFields(html)[f]
               /\ (f = "donation" => presets = {})

\* C8: after a donation submission that the gateway accepts has ended, the
\* visible conditional groups are exactly those visible right after
\* page-load initialization, whatever was selected initially and before
\* submitting.
C8_VisibleAsAtLoad ==
    (Ended("donation") /\ Accepted("donation"))
        => visible = InitialVisible(html)

\* C15: after a donation-type change to v: money leaves the money fields
\* and the payment-method group visible and the goods fields hidden; goods
\* leaves the goods fields visible and the other three groups hidden; time
\* leaves all four hidden and activates the volunteer tab; the money and
\* goods groups are never both visible after such a change.
C15_TypeSelectsOneGroup ==
    [][\A v \in DonationTypes :
          ChangeDonationType(v) =>
              /\ v = "money" => /\ {"money", "payment"} \subseteq visible'
                                /\ "goods" \notin visible'
              /\ v = "goods" => visible' = {"goods"}
              /\ v = "time" => /\ visible' = {}
                               /\ activeTab' = "tab-volunteer"
              /\ ~({"money", "goods"} \subseteq visible')]_vars

\* goods has been selected after money with pix: only the goods fields show
C15_Witness ==
    /\ fields.donation.dtype = "goods"
    /\ fields.donation.pay = "pix"
    /\ html.dtype = "money"
    /\ visible = {"goods"}

\* C16: after a payment-method change the pix panel is visible exactly when
\* the selected method is pix, and after a donation-type or payment-method
\* change the pix panel is visible only if the donation type is money.
C16_PixOnlyWithMoney ==
    [][/\ \A v \in PaymentMethods :
            ChangePayment(v) => (("pix" \in visible') <=> (v = "pix"))
       /\ ((\E v \in PaymentMethods : ChangePayment(v))
            \/ (\E v \in DonationTypes : ChangeDonationType(v)))
              => ("pix" \in visible' => fields'.donation.dtype = "money")]_vars

\* C17: which groups are visible is a function of the checked donation type
\* and payment method alone: whenever the selections are those of page load,
\* the visible groups are those of page load.
C17_VisibleFollowsSelection ==
    (/\ fields.donation.dtype = html.dtype
     /\ fields.donation.pay = html.pay)
        => visible = InitialVisible(html)

\* C18: a click on a preset button sets the amount field to the button's
\* amount and leaves exactly that button active; a manual edit of the
\* amount leaves no button active; at most one button is ever active.
C18_OnePresetActive ==
    [][/\ \A b \in PresetAmounts :
            ClickPreset(b) => /\ fields'.donation.amount = b
                              /\ presets' = {b}
       /\ \A v \in TypedAmounts : InputAmount(v) => presets' = {}
       /\ Cardinality(presets') <= 1]_vars

\* the second preset button is the active one and the amount is its amount
C18_Witness ==
    /\ presets = {"50"}
    /\ fields.donation.amount = "50"

\* C19: a validated volunteer submission sends a payload that carries the
\* skills as one field whose value is the ordered list of the checked
\* values of the skills group (an empty sequence when none is checked).
C19_PayloadCarriesSkills ==
    (/\ last.op = "submit"
     /\ last.form = "volunteer"
     /\ last.result # "invalid")
        => \E i \in Outstanding("volunteer") :
               /\ <<"skills">> \in DOMAIN timers[i].body
               /\ timers[i].body[<<"skills">>]
                     = Arr(checkedSkills(fields.volunteer))

\* a step of a submission of form f: its submit handler runs up to its
\* first await or its end, or one of the form's timers runs (the handler
\* resumes, or one of its notices removes itself)
SubmissionStep(f) ==
    \/ SubmitIntent(f)
    \/ \E i \in DOMAIN timers : timers[i].form = f /\ RunTimer(i)

\* C20: a step of a submission of one form leaves the field values, the
\* submit control and the notices of the other forms unchanged.
C20_OtherFormsUntouched ==
    [][\A f \in Forms :
          SubmissionStep(f) =>
              \A g \in Forms \ {f} :
                  /\ fields'[g] = fields[g]
                  /\ button'[g] = button[g]
                  /\ feedback'[g] = feedback[g]]_vars

\* a validated submission of one form has just ended while another form of
\* the page holds entered values, the notice of its own failed validation
\* and that notice's pending timer
C20_Witness ==
    \E f \in present :
        \E g \in present \ {f} :
            /\ last.op = "submit" /\ last.form = f /\ last.result # "invalid"
            /\ fields[g] # DefaultFields(html)[g]
            /\ Len(feedback[g]) = 1
            /\ \E i \in DOMAIN timers : timers[i].form = g
            /\ feedback[f] = <<>>

(***************************************************************************)
(* Claims about the gateway and the facade (checked under GwSpec).         *)
(***************************************************************************)
MockedPaths ==
    {"/dashboard", "/projects", "/process-donation", "/process-volunteer",
     "/subscribe-newsletter"}

Mocked(endpoint) == Len(endpoint) >= 1 /\ endpoint[1] \in MockedPaths

HasSettled(i) == i \in DOMAIN calls /\ calls[i].settles = 1

\* C21: every gateway call settles exactly once, after its delay, and is
\* never requested again; it resolves with a success payload when its path
\* starts with one of the five mocked paths and rejects with an error for
\* every other path.
C21_GatewaySettlesOnce ==
    /\ [](\A i \in DOMAIN calls :
            /\ calls[i].requests = 1
            /\ calls[i].settles \in {0, 1}
            /\ HasSettled(i) =>
                  IF Mocked(calls[i].endpoint)
                  THEN calls[i].response.ok /\ calls[i].response.success
                  ELSE /\ ~calls[i].response.ok
                       /\ calls[i].response.error # <<>>)
    /\ \A i \in 1..MaxCalls :
          (i \in DOMAIN calls /\ calls[i].settles = 0) ~> HasSettled(i)

\* one call has resolved and another has rejected
C21_Witness ==
    /\ \E i \in DOMAIN calls : HasSettled(i) /\ calls[i].response.ok
    /\ \E i \in DOMAIN calls :
          /\ HasSettled(i)
          /\ ~calls[i].response.ok
          /\ calls[i].endpoint = <<"/api", "/dashboard">>

DashboardEndpoint(endpoint) ==
    Len(endpoint) >= 1 /\ endpoint[1] = "/dashboard"

\* C22: for every endpoint that starts with /dashboard, whatever its date
\* query, the gateway resolves with success true and a mapData array of at
\* least one entry; it never rejects.
C22_DashboardAlwaysResolves ==
    \A i \in DOMAIN calls :
        (HasSettled(i) /\ DashboardEndpoint(calls[i].endpoint))
            => /\ calls[i].response.ok
               /\ calls[i].response.success
               /\ Len(calls[i].response.data.mapData) >= 1

\* a dashboard request with a date query and one with an empty date have
\* settled
C22_Witness ==
    /\ \E i \in DOMAIN calls :
          /\ HasSettled(i)
          /\ calls[i].endpoint = <<"/dashboard", "?", "date=", "d1">>
    /\ \E i \in DOMAIN calls :
          /\ HasSettled(i)
          /\ calls[i].op = "getDashboardData"
          /\ calls[i].endpoint = <<"/dashboard", "?", "date=", "">>

\* answers a gateway may give: success, success false with and without a
\* message, and a rejection
GatewayAnswers ==
    {Resolved(TRUE, "ok", <<>>), Resolved(FALSE, "no", <<>>),
     Resolved(FALSE, "", <<>>), Rejected(<<"Falha">>)}

NonEmptyMessage(error) == error # <<>> /\ \A k \in DOMAIN error : error[k] # ""

\* C23: each operation of the facade makes exactly one gateway call and
\* resolves exactly when the response has success true; when the gateway
\* rejects or answers success false the operation rejects with an error
\* whose message is not empty (the payload's message, else the operation's
\* default).
C23_FacadeFollowsResponse ==
    /\ \A i \in DOMAIN calls :
          calls[i].op \in FacadeOps =>
              /\ calls[i].requests = 1
              /\ HasSettled(i) =>
                    /\ calls[i].result.resolved
                          <=> (calls[i].response.ok
                                 /\ calls[i].response.success)
                    /\ ~calls[i].result.resolved
                          => NonEmptyMessage(calls[i].result.error)
    /\ \A op \in FacadeOps :
          \A response \in GatewayAnswers :
              LET result == facadeContinue(op, response) IN
              /\ result.resolved <=> (response.ok /\ response.success)
              /\ ~result.resolved =>
                    /\ NonEmptyMessage(result.error)
                    /\ response.ok =>
                          result.error =
                              <<IF response.message # ""
                                THEN response.message
                                ELSE defaultError(op)>>

\* an operation of each kind has settled
C23_Witness ==
    /\ \E i \in DOMAIN calls :
          /\ HasSettled(i)
          /\ calls[i].op = "getProjects"
          /\ calls[i].result.resolved
    /\ \E i \in DOMAIN calls :
          /\ HasSettled(i)
          /\ calls[i].op = "submitNewsletter"
          /\ calls[i].result.resolved

FormPaths ==
    {"/process-donation", "/process-volunteer", "/subscribe-newsletter"}

FormEndpoint(endpoint) == Len(endpoint) >= 1 /\ endpoint[1] \in FormPaths

\* C34: with the mock gateway a request to /process-donation,
\* /process-volunteer or /subscribe-newsletter never rejects and never
\* answers success false, so the submit operation of each of the three forms
\* resolves: a validated submission that reaches the gateway ends in Success.
C34_FormRequestsSucceed ==
    /\ \A i \in DOMAIN calls :
          (HasSettled(i) /\ FormEndpoint(calls[i].endpoint))
              => /\ calls[i].response.ok
                 /\ calls[i].response.success
                 /\ calls[i].op # "fetchData" => calls[i].result.resolved
    /\ \A f \in Forms : facadeSubmit(f).returned

\* a submit operation of the facade and a direct request to a form endpoint
\* have settled
C34_Witness ==
    /\ \E i \in DOMAIN calls :
          HasSettled(i) /\ calls[i].op = "submitDonation"
    /\ \E i \in DOMAIN calls :
          /\ HasSettled(i)
          /\ calls[i].op = "fetchData"
          /\ calls[i].endpoint = <<"/subscribe-newsletter">>

(***************************************************************************)
(* Claims about the page (checked under PageSpec).                         *)
(***************************************************************************)
\* the mock projects a region and a type select
Matching(region, type) ==
    SelectSeq(allProjects, LAMBDA p :
        /\ region = "all" \/ p.region = region
        /\ type = "all" \/ p.type = type)

ProjectsLoading ==
    \E i \in DOMAIN pageTimers : pageTimers[i].kind = "loadProjects"

\* C24: after a change of the region or of the type filter, the project
\* list requested and rendered consists of exactly the mock projects whose
\* region is the selected region (or any, for 'all') and whose type is the
\* selected type (or any, for 'all').
C24_ListMatchesFilters ==
    (/\ markup.projects = "list"
     /\ selects # [region |-> "all", type |-> "all"]
     /\ ~ProjectsLoading)
        => projectCards
             = renderProjects(Matching(selects.region, selects.type))

PendingLive == {i \in DOMAIN pageTimers : pageTimers[i].kind = "live"}

LiveText == IF live = <<>> THEN "" ELSE live[1].text

\* a step that announces leaves the message it announced in the region
LastWriteWins ==
    /\ (Click("theme") /\ markup.bodyAction = "toggle-theme")
          => LiveText' = themeMessage(currentTheme')
    /\ (Click("other") /\ lastClick'.requests = 1)
          => LiveText' = "Atualizando dados do painel..."
    /\ \A i \in DOMAIN pageTimers :
          (RunPageTimer(i) /\ pageTimers[i].kind = "loadData")
              => LiveText' = "Dados do painel atualizados."

\* C27: at most one live region element exists at any time; right after an
\* announcement the region's text is the message announced (the last write
\* wins), and the region becomes empty again.
C27_OneLiveRegionLastWriteWins ==
    /\ [](Len(live) <= 1)
    /\ [][LastWriteWins]_vars
    /\ (LiveText # "") ~> (LiveText = "")

\* a second announcement has overwritten the first while the timers of both
\* are pending
C27_Witness ==
    /\ Len(live) = 1
    /\ Cardinality(PendingLive) = 2
    /\ live[1].text = "Dados do painel atualizados."

\* C28 as stated: for any starting state (nothing persisted, 'light',
\* 'dark', or any other stored value), two toggles of the theme leave the
\* persisted preference equal to what it was before them.
C28_TwoTogglesRestore == Len(trail) = 2 => stored = trail[1]

\* C28: two toggles of the theme leave the persisted preference equal to
\* what it was before them when that was 'light' or 'dark'; when nothing (or
\* the empty string) was persisted it is 'light' afterwards, and for any
\* other stored value it is 'dark'.
C28_TwoTogglesRestoreLightOrDark ==
    Len(trail) = 2 =>
        stored = IF trail[1] \in {"light", "dark"} THEN trail[1]
                 ELSE IF trail[1] \in {NothingStored, ""} THEN "light"
                 ELSE "dark"

\* the theme has been toggled twice on a page that had nothing persisted
C28_Witness == Len(trail) = 2 /\ trail[1] = NothingStored

\* C29: in every reachable state the current theme is 'light' or 'dark' and
\* the body carries exactly one theme class, that of the current theme;
\* after each toggle the persisted value equals the current theme.
C29_ThemeIsLightOrDark ==
    /\ currentTheme \in {"light", "dark"}
    /\ bodyClasses = {currentTheme}
    /\ trail # <<>> => stored = currentTheme

\* C30: one click on the refresh control of the dashboard starts exactly one
\* dashboard load: one run of loadData and one request to the gateway.
C30_OneLoadPerClick ==
    [][(markup.dashboard /\ Click("refresh"))
          => lastClick' = Started(1, 1)]_vars

\* the dashboard loads whose gateway request has not settled yet
LoadsOutstanding ==
    {i \in DOMAIN pageTimers : pageTimers[i].kind = "loadData"}

IndicatorShown == containers.dashboard.loaders > 0

\* the step runs handleRefreshClick or handleDateFilterChange
StartsLoad ==
    markup.dashboard /\ (Click("refresh") \/ \E d \in Dates : ChangeDate(d))

LoadShowsIndicator ==
    StartsLoad => (LoadsOutstanding # {})' /\ IndicatorShown'

\* C31: the dashboard section carries its loading indicator exactly while at
\* least one dashboard load is outstanding, overlapping loads included: a
\* refresh or a date change starts a load and shows the indicator, and every
\* load that starts eventually settles with the indicator removed.
C31_IndicatorWhileLoading ==
    /\ [](markup.dashboard => (IndicatorShown <=> LoadsOutstanding # {}))
    /\ [][LoadShowsIndicator]_vars
    /\ (LoadsOutstanding # {}) ~> (LoadsOutstanding = {} /\ ~IndicatorShown)

\* a clear timer that runs while the timer of a later announcement is still
\* pending leaves the region's text alone
EarlierTimerSpares ==
    \A i \in PendingLive :
        (RunPageTimer(i) /\ \E j \in PendingLive : j > i)
            => LiveText' = LiveText

\* C33: an announced message stays in the live region for its full 1000 ms
\* unless a later announcement overwrites it: the clear timer of an earlier
\* announcement never erases a later message whose own interval has not
\* elapsed.
C33_MessageStaysFullInterval == [][EarlierTimerSpares]_vars

(***************************************************************************)
(* Claims about the widgets (checked under WidgetSpec).                    *)
(***************************************************************************)
\* the marker entries among the children of the map container
DisplayedMarkers ==
    SelectSeq(map.content, LAMBDA x : x \notin {"p:loading", "p:ready", "ul"})

\* C32: after any interleaving of the map's delayed _finishInitialization
\* with any number of renderMarkers calls, the marker entries displayed in
\* the map container are exactly the markers held in this.markers, one per
\* point of the most recent renderMarkers data.
C32_DisplayedAreCurrentMarkers == DisplayedMarkers = map.markers

SelectedTabs == {t \in TabIds : tabs.selected[t] = "true"}

VisiblePanels == {p \in DOMAIN PanelLabels : ~tabs.hidden[p]}

\* the step is a key press on the tab at position from that moves to the
\* tab at position to
KeyMoves(key, from, to) ==
    KeyTab(TabOrder[from], key) => activeTab' = TabOrder[to]

KeysWrap ==
    /\ KeyMoves("ArrowRight", Len(TabOrder), 1)
    /\ KeyMoves("ArrowLeft", 1, Len(TabOrder))
    /\ KeyMoves("Home", 2, 1)
    /\ KeyMoves("End", 2, Len(TabOrder))

\* C35: after initTabs and after any sequence of tab clicks and ArrowLeft,
\* ArrowRight, Home and End presses, exactly one tab has aria-selected true
\* and tabindex 0, the only visible panel is the one labelled by that tab,
\* and appState.activeActionTab is that tab's id; ArrowRight on the last tab
\* selects the first and ArrowLeft on the first selects the last.
C35_OneTabSelected ==
    /\ [](/\ SelectedTabs = {activeTab}
          /\ {t \in TabIds : tabs.tabindex[t] = "0"} = {activeTab}
          /\ {PanelLabels[p] : p \in VisiblePanels} = {activeTab}
          /\ Cardinality(VisiblePanels) = 1)
    /\ [][KeysWrap]_vars

\* ArrowRight has just been pressed on the last tab: the first is selected
\* and its panel is the visible one
C35_Witness ==
    /\ last = Did("key", "tab-share", "ArrowRight")
    /\ activeTab = "tab-donate"
    /\ SelectedTabs = {"tab-donate"}
    /\ VisiblePanels = {"donate"}

OpenDropdowns == {c \in DropdownContainers : dropdowns[c].open}

\* C36: after any sequence of toggle clicks, Escape presses, Tab-outs from
\* the first or last item and clicks outside, at most one dropdown container
\* is open, and for every dropdown aria-expanded is 'true' exactly when its
\* menu carries the is-open class.
C36_AtMostOneDropdownOpen ==
    /\ Cardinality(OpenDropdowns) <= 1
    /\ \A c \in DropdownContainers :
          /\ dropdowns[c].expanded \in {"true", "false"}
          /\ dropdowns[c].expanded = "true" <=> dropdowns[c].open

\* the language switcher has been opened and is the only open dropdown
C36_Witness ==
    /\ OpenDropdowns = {"language-switcher"}
    /\ dropdowns["language-switcher"].expanded = "true"
    /\ dropdowns["user-menu"].expanded = "false"

CriticalCount(alerts) ==
    Cardinality({k \in DOMAIN alerts : alerts[k].level = "critical"})

\* a step of updateAlerts leaves the badge with the count of the list it
\* was given, hidden when the count is zero
BadgeFollowsList ==
    \A alerts \in AlertLists :
        \A now \in Nows :
            UpdateAlerts(alerts, now) =>
                /\ alertsWidget'.badge.count = CriticalCount(alerts)
                /\ alertsWidget'.badge.display = "none"
                      <=> CriticalCount(alerts) = 0

\* C37: after every updateAlerts call the alerts badge shows the number of
\* critical alerts of the list just rendered and is hidden when that number
\* is zero, including when the new list is empty after a non-empty one.
C37_BadgeCountsCritical == [][BadgeFollowsList]_vars

(***************************************************************************)
(* Claim about formatDate (checked under DateSpec).                        *)
(***************************************************************************)
\* the calendar date of an instant, as a number of days
CalendarDay(instant) == instant \div 24

\* C38: for every instant less than 7 days in the past, formatDate returns
\* 'Hoje' if the instant is on today's calendar date, 'Ontem' if it is on
\* the calendar date immediately before today (a month boundary included),
\* and otherwise 'N dias atrás' with N >= 1; it never returns a relative
\* string with zero or negative days.
C38_RelativeDateByCalendarDay ==
    (/\ formatted # NotFormatted
     /\ formatted.date <= formatted.now
     /\ formatted.now - formatted.date < 7 * 24)
        => LET daysBefore == CalendarDay(formatted.now)
                                - CalendarDay(formatted.date)
           IN formatted.result =
                 CASE daysBefore = 0 -> Formatted("Hoje", 0)
                   [] daysBefore = 1 -> Formatted("Ontem", 0)
                   [] OTHER ->
                        Formatted("dias atrás",
                            IF formatted.result.n >= 1
                            THEN formatted.result.n ELSE 1)

(***************************************************************************)
(* Claims about the notices (checked under Spec).                          *)
(***************************************************************************)
\* the step displays a notice in the container of form f
Displays(f) ==
    last'.form = f /\ last'.result \in {"invalid", "success", "failure"}

NoticeIds(container) == {container[k].id : k \in DOMAIN container}

\* C25: whatever notices are displayed, whatever is submitted and whichever
\* timers expire, each feedback container holds at most one notice, and the
\* notice it holds is the one displayed last in that container.
C25_AtMostLatestNotice ==
    /\ [](\A f \in Forms : Len(feedback[f]) <= 1)
    /\ [][\A f \in Forms :
            IF Displays(f)
            THEN /\ Len(feedback'[f]) = 1
                 /\ feedback'[f][1].id \notin NoticeIds(feedback[f])
            ELSE feedback'[f] \in {feedback[f], <<>>}]_vars

\* a second notice has taken the place of the first, whose timer is pending
C25_Witness ==
    \E f \in Forms :
        /\ Len(feedback[f]) = 1
        /\ feedback[f][1].id = 2
        /\ \E i \in DOMAIN timers :
              /\ timers[i].kind = "feedback"
              /\ timers[i].form = f
              /\ timers[i].id = 1

DelayOf(type) == IF type = "error" THEN ErrorNoticeDelay ELSE NoticeDelay

\* the timer of a notice runs: that notice is gone, every other notice stays
OwnTimerOnly ==
    \A i \in DOMAIN timers :
        (RunTimer(i) /\ timers[i].kind = "feedback") =>
            /\ timers[i].id \notin NoticeIds(feedback'[timers[i].form])
            /\ \A f \in Forms :
                  \A k \in DOMAIN feedback[f] :
                      (f # timers[i].form \/ feedback[f][k].id # timers[i].id)
                          => feedback[f][k].id \in NoticeIds(feedback'[f])

\* C26: every notice displayed is removed when its own timeout elapses (10 s
\* for an error, 5 s otherwise) unless it was replaced or cleared before;
\* the timer of a replaced notice never removes the notice that replaced it.
C26_NoticeRemovedByOwnTimer ==
    /\ [](\A f \in Forms :
            \A k \in DOMAIN feedback[f] :
                \E i \in DOMAIN timers :
                    /\ timers[i].kind = "feedback"
                    /\ timers[i].form = f
                    /\ timers[i].id = feedback[f][k].id
                    /\ timers[i].lo = DelayOf(feedback[f][k].type)
                    /\ timers[i].hi = DelayOf(feedback[f][k].type))
    /\ [](\A f \in Forms :
            \A type \in {"error", "success", "info"} :
                /\ feedbackTimer(f, 1, type).lo = DelayOf(type)
                /\ feedbackTimer(f, 1, type).hi = DelayOf(type))
    /\ [][OwnTimerOnly]_vars

\* the timer of a replaced notice has run and the notice that replaced it is
\* still displayed
C26_Witness ==
    \E f \in Forms :
        /\ present = {f}
        /\ Len(feedback[f]) = 1
        /\ feedback[f][1].id = 2
        /\ Len(timers) = 1
        /\ timers[1].id = 2
====
